---- MODULE Spec2Model ----
(***************************************************************************)
(* featherengine: the MVCC transaction layer of                            *)
(* src/concurrency/transaction.rs over the shared ordered key/value store. *)
(*                                                                         *)
(* Every call of the store (get, set, delete, scan, flush) is one atomic   *)
(* step; the calls of one Transaction::begin / resume / commit are         *)
(* separate steps, so that calls made by different threads interleave.     *)
(* Spec lets the threads interleave freely, SeqSpec runs one call of the   *)
(* API at a time.                                                          *)
(***************************************************************************)
EXTENDS Integers, Sequences, FiniteSets, TLC

\* ------------------------------------------------------------------ bounds
\* the number of calls of begin, resume and commit in a behaviour
MaxCalls == 4
\* the largest version begin is given in Mode::Snapshot
MaxVersion == 2

\* the number of threads that call the API
NumThreads == 2

\* the threads that call the API
Threads == 1..NumThreads

\* ------------------------------------------------------------------ values
\* the ids resume is called with: every id begin can have allocated by then,
\* and at least one it has not
Ids == 1..MaxCalls
\* the versions begin is called with in Mode::Snapshot
Versions == 1..MaxVersion

\* Mode::ReadWrite
ReadWrite == [mode |-> "ReadWrite"]
\* Mode::ReadOnly
ReadOnly == [mode |-> "ReadOnly"]
\* Mode::Snapshot { version }
ModeSnapshot(version) == [mode |-> "Snapshot", version |-> version]
\* the modes begin is called with
Modes == {ReadWrite, ReadOnly} \cup {ModeSnapshot(v) : v \in Versions}

\* struct Snapshot { version, invisible }
Snapshot(version, invisible) == [version |-> version, invisible |-> invisible]
\* struct Transaction { store, id, mode, snapshot } (the store is shared)
Transaction(id, mode, snapshot) == [id |-> id, mode |-> mode, snapshot |-> snapshot]

\* Error::Value(format!(..)) and Error::Internal(format!(..))
ErrValue(msg, n) == [kind |-> "Value", msg |-> msg, n |-> n]
ErrInternal(msg) == [kind |-> "Internal", msg |-> msg, n |-> 0]
NoErr == [kind |-> "None", msg |-> "", n |-> 0]

\* Mode::allows_write
allows_write(mode) == mode = ReadWrite

\* ------------------------------------------------------------------ key codec
\* the len low-order bytes of n, most significant first
RECURSIVE BigEndian(_, _)
BigEndian(n, len) ==
    IF len = 0 THEN <<>> ELSE BigEndian(n \div 256, len - 1) \o <<n % 256>>

\* the number whose big-endian bytes are bytes
RECURSIVE FromBigEndian(_)
FromBigEndian(bytes) ==
    IF bytes = <<>> THEN 0
    ELSE FromBigEndian(SubSeq(bytes, 1, Len(bytes) - 1)) * 256 + bytes[Len(bytes)]

\* crate::encoding::encode_u64: eight bytes, big-endian
encode_u64(n) == BigEndian(n, 8)

\* crate::encoding::encode_bytes: 0x00 is escaped as 0x00 0xff, and the
\* string is terminated by 0x00 0x00
RECURSIVE encode_bytes(_)
encode_bytes(bytes) ==
    IF bytes = <<>> THEN <<0, 0>>
    ELSE (IF Head(bytes) = 0 THEN <<0, 255>> ELSE <<Head(bytes)>>)
         \o encode_bytes(Tail(bytes))

\* the variants of enum MvccKey
TxnNext == [variant |-> "TxnNext"]
TxnActive(id) == [variant |-> "TxnActive", id |-> id]
TxnSnapshot(version) == [variant |-> "TxnSnapshot", version |-> version]
TxnUpdate(id, key) == [variant |-> "TxnUpdate", id |-> id, key |-> key]
Metadata(key) == [variant |-> "Metadata", key |-> key]
Record(key, version) == [variant |-> "Record", key |-> key, version |-> version]

\* encode that writes the version of a Record before its key
encode_version_first(k) ==
    CASE k.variant = "TxnNext" -> <<1>>
      [] k.variant = "TxnActive" -> <<2>> \o encode_u64(k.id)
      [] k.variant = "TxnSnapshot" -> <<3>> \o encode_u64(k.version)
      [] k.variant = "TxnUpdate" -> <<4>> \o encode_u64(k.id) \o encode_bytes(k.key)
      [] k.variant = "Metadata" -> <<5>> \o encode_bytes(k.key)
      [] k.variant = "Record" -> <<255>> \o encode_u64(k.version) \o encode_bytes(k.key)

\* encode that writes the key of a TxnUpdate before its id
encode_key_first(k) ==
    CASE k.variant = "TxnNext" -> <<1>>
      [] k.variant = "TxnActive" -> <<2>> \o encode_u64(k.id)
      [] k.variant = "TxnSnapshot" -> <<3>> \o encode_u64(k.version)
      [] k.variant = "TxnUpdate" -> <<4>> \o encode_bytes(k.key) \o encode_u64(k.id)
      [] k.variant = "Metadata" -> <<5>> \o encode_bytes(k.key)
      [] k.variant = "Record" -> <<255>> \o encode_bytes(k.key) \o encode_u64(k.version)

\* MvccKey::encode
encode(k) ==
    CASE k.variant = "TxnNext" -> <<1>>
      [] k.variant = "TxnActive" -> <<2>> \o encode_u64(k.id)
      [] k.variant = "TxnSnapshot" -> <<3>> \o encode_u64(k.version)
      [] k.variant = "TxnUpdate" -> <<4>> \o encode_u64(k.id) \o encode_bytes(k.key)
      [] k.variant = "Metadata" -> <<5>> \o encode_bytes(k.key)
      [] k.variant = "Record" -> <<255>> \o encode_bytes(k.key) \o encode_u64(k.version)

\* a failed take_* or decode
DecodeErr == [variant |-> "Err"]

\* crate::encoding::take_u64: the value of the first eight bytes and the
\* rest, or an error when fewer than eight are left
take_u64(bytes) ==
    IF Len(bytes) < 8 THEN [ok |-> FALSE, value |-> 0, rest |-> <<>>]
    ELSE [ok |-> TRUE,
          value |-> FromBigEndian(SubSeq(bytes, 1, 8)),
          rest |-> SubSeq(bytes, 9, Len(bytes))]

\* crate::encoding::take_bytes: undoes encode_bytes up to the terminator
RECURSIVE take_bytes(_)
take_bytes(bytes) ==
    IF Len(bytes) = 0 THEN [ok |-> FALSE, value |-> <<>>, rest |-> <<>>]
    ELSE IF Head(bytes) # 0
         THEN LET r == take_bytes(Tail(bytes))
              IN  [ok |-> r.ok, value |-> <<Head(bytes)>> \o r.value, rest |-> r.rest]
    ELSE IF Len(bytes) < 2 THEN [ok |-> FALSE, value |-> <<>>, rest |-> <<>>]
    ELSE IF bytes[2] = 0
         THEN [ok |-> TRUE, value |-> <<>>, rest |-> SubSeq(bytes, 3, Len(bytes))]
    ELSE IF bytes[2] = 255
         THEN LET r == take_bytes(SubSeq(bytes, 3, Len(bytes)))
              IN  [ok |-> r.ok, value |-> <<0>> \o r.value, rest |-> r.rest]
    ELSE [ok |-> FALSE, value |-> <<>>, rest |-> <<>>]

\* MvccKey::decode: the tag byte, the fields of the variant, and nothing left
decode(bytes) ==
    IF Len(bytes) = 0 THEN DecodeErr
    ELSE LET tag == Head(bytes)
             body == Tail(bytes)
             done(ok, rest, key) == IF ok /\ rest = <<>> THEN key ELSE DecodeErr
         IN  CASE tag = 1 -> done(TRUE, body, TxnNext)
               [] tag = 2 -> LET a == take_u64(body)
                             IN  done(a.ok, a.rest, TxnActive(a.value))
               [] tag = 3 -> LET a == take_u64(body)
                             IN  done(a.ok, a.rest, TxnSnapshot(a.value))
               [] tag = 4 -> LET a == take_u64(body)
                                 b == take_bytes(a.rest)
                             IN  done(a.ok /\ b.ok, b.rest, TxnUpdate(a.value, b.value))
               [] tag = 5 -> LET b == take_bytes(body)
                             IN  done(b.ok, b.rest, Metadata(b.value))
               [] tag = 255 -> LET b == take_bytes(body)
                                   a == take_u64(b.rest)
                               IN  done(b.ok /\ a.ok, a.rest, Record(b.value, a.value))
               [] OTHER -> DecodeErr

\* serialize / deserialize: the bincode framing of a metadata value
serialize(value) == [bincode |-> value]
deserialize(bytes) == bytes.bincode

\* ------------------------------------------------------------------ the store
\* the order of keys in the store: byte strings, lexicographically
RECURSIVE BytesLess(_, _)
BytesLess(a, b) ==
    IF b = <<>> THEN FALSE
    ELSE IF a = <<>> THEN TRUE
    ELSE IF Head(a) # Head(b) THEN Head(a) < Head(b)
    ELSE BytesLess(Tail(a), Tail(b))

\* KvStore::get: Some(value) or None
None == [some |-> FALSE]
Some(value) == [some |-> TRUE, value |-> value]
get(s, key) == IF key \in DOMAIN s THEN Some(s[key]) ELSE None

\* KvStore::set
set(s, key, value) == [k \in DOMAIN s \cup {key} |-> IF k = key THEN value ELSE s[k]]

\* KvStore::delete
delete(s, key) == [k \in DOMAIN s \ {key} |-> s[k]]

\* KvStore::scan(Range::from(lo..hi)): the keys in the half-open range
scan(s, lo, hi) == {k \in DOMAIN s : ~BytesLess(k, lo) /\ BytesLess(k, hi)}

\* restore that takes a missing snapshot for an empty one
restore_or_empty(s, version) ==
    LET v == get(s, encode(TxnSnapshot(version)))
    IN  [ok |-> TRUE,
         snapshot |-> Snapshot(version, IF v.some THEN deserialize(v.value) ELSE {}),
         err |-> NoErr]

\* Snapshot::restore: the snapshot persisted under TxnSnapshot(version), or
\* the Value error when there is none
restore(s, version) ==
    LET v == get(s, encode(TxnSnapshot(version)))
    IN  IF v.some
        THEN [ok |-> TRUE, snapshot |-> Snapshot(version, deserialize(v.value)), err |-> NoErr]
        ELSE [ok |-> FALSE, snapshot |-> Snapshot(0, {}),
              err |-> ErrValue("Snapshot not found for version", version)]

\* Transaction::begin, lines 26-29: the id to allocate is the value of
\* TxnNext, 1 when the key is absent
next_id(s) ==
    LET v == get(s, encode(TxnNext))
    IN  IF v.some THEN deserialize(v.value) ELSE 1

\* take with the own id inside the scanned range (an off-by-one of the bound)
take_scan_inclusive(s, version) ==
    LET keys == scan(s, encode(TxnActive(0)), encode(TxnActive(version + 1)))
        decoded == {decode(k) : k \in keys}
    IN  IF \A d \in decoded : d.variant = "TxnActive"
        THEN [ok |-> TRUE, invisible |-> {d.id : d \in decoded}]
        ELSE [ok |-> FALSE, invisible |-> {}]

\* Snapshot::take, lines 114-123: the ids of the keys in the range
\* TxnActive(0)..TxnActive(version); a key that does not decode to a
\* TxnActive is an Internal error
take_scan(s, version) ==
    LET keys == scan(s, encode(TxnActive(0)), encode(TxnActive(version)))
        decoded == {decode(k) : k \in keys}
    IN  IF \A d \in decoded : d.variant = "TxnActive"
        THEN [ok |-> TRUE, invisible |-> {d.id : d \in decoded}]
        ELSE [ok |-> FALSE, invisible |-> {}]

\* resume that reads the marker of another key variant
resume_mode_snapshot(s, id) ==
    LET v == get(s, encode(TxnSnapshot(id)))
    IN  IF v.some THEN Some(serialize(ReadWrite)) ELSE None

\* Transaction::resume, line 46: the serialized mode under TxnActive(id)
resume_mode(s, id) == get(s, encode(TxnActive(id)))

\* resume that always restores the snapshot of the id
resume_version_by_id(id, mode) == id

\* Transaction::resume, lines 52-55: the version of the snapshot to restore
resume_version(id, mode) ==
    IF mode.mode = "Snapshot" THEN mode.version ELSE id

\* commit that deletes the marker of the snapshot's version, not of the id
commit_key_version(self) == encode(TxnActive(self.snapshot.version))

\* commit that deletes the persisted snapshot, not the marker
commit_key_snapshot(self) == encode(TxnSnapshot(self.id))

\* Transaction::commit, line 71: the key commit deletes
commit_key(self) == encode(TxnActive(self.id))

\* ------------------------------------------------------------------ state
VARIABLES
    store,      \* the shared KvStore: encoded key -> serialized value
    durable,    \* the content of the store at its last flush
    thread,     \* per thread: where it is in its call, and the call's locals
    txns,       \* the Transaction objects returned by begin and not yet committed
    resumed,    \* the Transaction objects returned by resume and not yet committed
    nCalls,     \* the number of calls of begin, resume and commit made
    returned,   \* history: the ids returned by begin, in the order of the returns
    committed,  \* history: the ids commit was called with
    failed,     \* history: some begin call returned an error
    ret,        \* the call that returned in the step just taken, if one did
    took        \* the version whose Snapshot::take completed in the step just taken, or 0

\* the key codec at work on one key
VARIABLES
    inKey,      \* the MvccKey given to encode
    wire,       \* the byte string at hand: encode(inKey), then edited
    edits,      \* the number of edits made to wire
    result      \* what the last decode, comparison or scan gave

\* an SSTable as it is built, written, opened and iterated
VARIABLES
    sstBuilder, \* the SsTableBuilder: meta, data, cur_block_first_key, block_builder
    sstAdded,   \* history: the pairs given to add, in the order of the calls
    sstFile,    \* the FileObject that build wrote
    sstTable,   \* the SsTable that build returned
    sstOpened,  \* what SsTable::open made of the file
    sstIter,    \* the SsTableIter
    sstOut      \* history: the entries next returned, and how often it returned none

\* a list of block metas as it is encoded and decoded
VARIABLES
    metaIn,     \* the block metas given to encode_block_meta
    metaBuf,    \* the buffer after encode_block_meta
    metaOut     \* what decode_block_meta made of the encoded metas

\* the variables of the transaction layer
txnVars == <<store, durable, thread, txns, resumed, nCalls, returned,
             committed, failed, ret, took>>

\* the variables of the key codec
codecVars == <<inKey, wire, edits, result>>

\* the variables of the SSTable
sstVars == <<sstBuilder, sstAdded, sstFile, sstTable, sstOpened, sstIter, sstOut>>

\* the variables of the block meta codec
metaVars == <<metaIn, metaBuf, metaOut>>

vars == <<txnVars, codecVars, sstVars, metaVars>>

\* nothing was decoded, compared or scanned yet
NoResult == [op |-> "none", key |-> [variant |-> "None"], err |-> NoErr,
             other |-> [variant |-> "None"], less |-> FALSE, found |-> {},
             invisible |-> {}]

\* the key codec is at rest
CodecIdle ==
    /\ inKey = TxnNext
    /\ wire = <<>>
    /\ edits = 0
    /\ result = NoResult

\* no SsTableBuilder, file, table or iterator
NoBuilder == [state |-> "none"]
NoFile == [state |-> "none"]
NoTable == [state |-> "none"]
NoIter == [state |-> "none"]
\* next was not called yet
NoOut == [emitted |-> <<>>, nones |-> 0]

\* no SSTable is at work
SstIdle ==
    /\ sstBuilder = NoBuilder
    /\ sstAdded = <<>>
    /\ sstFile = NoFile
    /\ sstTable = NoTable
    /\ sstOpened = NoTable
    /\ sstIter = NoIter
    /\ sstOut = NoOut

\* no buffer was encoded, nothing was decoded
NoBuf == [state |-> "none"]
NoDecoded == [state |-> "none"]

\* no list of block metas is at work
MetaIdle ==
    /\ metaIn = <<>>
    /\ metaBuf = NoBuf
    /\ metaOut = NoDecoded

\* the store with no key
EmptyStore == [k \in {} |-> None]

\* a thread that is in no call
Idle == [pc |-> "idle", id |-> 0, mode |-> ReadWrite, invisible |-> {}, pre |-> EmptyStore]

NoTxn == Transaction(0, ReadWrite, Snapshot(0, {}))
\* no call returned in the step just taken
NoRet == [op |-> "none", ok |-> FALSE, id |-> 0, txn |-> NoTxn, err |-> NoErr,
          pre |-> EmptyStore]
\* Ok(..) and Err(..) of the call op, which was made with (or allocated) id
\* when the store was pre
RetOk(op, id, txn, pre) ==
    [op |-> op, ok |-> TRUE, id |-> id, txn |-> txn, err |-> NoErr, pre |-> pre]
RetErr(op, id, err, pre) ==
    [op |-> op, ok |-> FALSE, id |-> id, txn |-> NoTxn, err |-> err, pre |-> pre]

\* thread t can start a call: it is idle. Idle threads are interchangeable (a
\* Transaction object belongs to no thread), so the call is given to the first
\* of them
CanCall(t) ==
    /\ thread[t].pc = "idle"
    /\ \A u \in Threads : u < t => thread[u].pc # "idle"
    /\ nCalls < MaxCalls

Init ==
    /\ store = EmptyStore
    /\ durable = EmptyStore
    /\ thread = [t \in Threads |-> Idle]
    /\ txns = {}
    /\ resumed = {}
    /\ nCalls = 0
    /\ returned = <<>>
    /\ committed = {}
    /\ failed = FALSE
    /\ ret = NoRet
    /\ took = 0
    /\ CodecIdle
    /\ MetaIdle
    /\ SstIdle

\* ------------------------------------------------------------------ begin
\* Transaction::begin, line 26: read TxnNext, 1 when it is absent
BeginGetNext(t, mode) ==
    /\ CanCall(t)
    /\ thread' = [thread EXCEPT ![t] =
           [pc |-> "begin_set_next", id |-> next_id(store), mode |-> mode,
            invisible |-> {}, pre |-> store]]
    /\ nCalls' = nCalls + 1
    /\ ret' = NoRet
    /\ took' = 0
    /\ UNCHANGED <<store, durable, txns, resumed, returned, committed, failed>>
    /\ UNCHANGED <<codecVars, sstVars, metaVars>>

\* begin that writes the id back unchanged
BeginSetNextSame(t) ==
    /\ thread[t].pc = "begin_set_next"
    /\ store' = set(store, encode(TxnNext), serialize(thread[t].id))
    /\ thread' = [thread EXCEPT ![t].pc = "begin_set_active"]
    /\ ret' = NoRet
    /\ took' = 0
    /\ UNCHANGED <<durable, txns, resumed, returned, committed, failed, nCalls>>
    /\ UNCHANGED <<codecVars, sstVars, metaVars>>

\* Transaction::begin, line 30: TxnNext = id + 1
BeginSetNext(t) ==
    /\ thread[t].pc = "begin_set_next"
    /\ store' = set(store, encode(TxnNext), serialize(thread[t].id + 1))
    /\ thread' = [thread EXCEPT ![t].pc = "begin_set_active"]
    /\ ret' = NoRet
    /\ took' = 0
    /\ UNCHANGED <<durable, txns, resumed, returned, committed, failed, nCalls>>
    /\ UNCHANGED <<codecVars, sstVars, metaVars>>

\* Transaction::begin, line 31: TxnActive(id) = mode
BeginSetActive(t) ==
    /\ thread[t].pc = "begin_set_active"
    /\ store' = set(store, encode(TxnActive(thread[t].id)), serialize(thread[t].mode))
    /\ thread' = [thread EXCEPT ![t].pc = "take_scan"]
    /\ ret' = NoRet
    /\ took' = 0
    /\ UNCHANGED <<durable, txns, resumed, returned, committed, failed, nCalls>>
    /\ UNCHANGED <<codecVars, sstVars, metaVars>>

\* Snapshot::take, lines 114-124: scan TxnActive(0)..TxnActive(version) and
\* collect the ids; a key of another variant is an Internal error of begin
TakeScan(t) ==
    /\ thread[t].pc = "take_scan"
    /\ LET version == thread[t].id
           r == take_scan(store, version)
       IN  IF r.ok
           THEN /\ thread' = [thread EXCEPT ![t].pc = "take_set",
                                            ![t].invisible = r.invisible]
                /\ ret' = NoRet
                /\ failed' = failed
           ELSE /\ thread' = [thread EXCEPT ![t] = Idle]
                /\ ret' = RetErr("begin", version, ErrInternal("Expected TxnActive"),
                                 thread[t].pre)
                /\ failed' = TRUE
    /\ took' = 0
    /\ UNCHANGED <<store, durable, txns, resumed, returned, committed, nCalls>>
    /\ UNCHANGED <<codecVars, sstVars, metaVars>>

\* Snapshot::take, lines 125-126, and for ReadWrite and ReadOnly the return of
\* begin, line 41: persist the set under TxnSnapshot(version)
TakeSet(t) ==
    /\ thread[t].pc = "take_set"
    /\ LET id == thread[t].id
           mode == thread[t].mode
           snapshot == Snapshot(id, thread[t].invisible)
           txn == Transaction(id, mode, snapshot)
       IN  /\ store' = set(store, encode(TxnSnapshot(id)), serialize(snapshot.invisible))
           /\ took' = id
           /\ IF mode.mode = "Snapshot"
              THEN /\ thread' = [thread EXCEPT ![t].pc = "begin_restore"]
                   /\ ret' = NoRet
                   /\ UNCHANGED <<txns, returned>>
              ELSE /\ thread' = [thread EXCEPT ![t] = Idle]
                   /\ ret' = RetOk("begin", id, txn, thread[t].pre)
                   /\ txns' = txns \cup {txn}
                   /\ returned' = Append(returned, id)
    /\ UNCHANGED <<durable, resumed, committed, failed, nCalls>>
    /\ UNCHANGED <<codecVars, sstVars, metaVars>>

\* begin that keeps the snapshot it has just taken as the working one
BeginRestoreTaken(t) ==
    /\ thread[t].pc = "begin_restore"
    /\ LET id == thread[t].id
           mode == thread[t].mode
           r == restore(store, mode.version)
           txn == Transaction(id, mode, Snapshot(id, thread[t].invisible))
       IN  IF r.ok
           THEN /\ ret' = RetOk("begin", id, txn, thread[t].pre)
                /\ txns' = txns \cup {txn}
                /\ returned' = Append(returned, id)
                /\ failed' = failed
           ELSE /\ ret' = RetErr("begin", id, r.err, thread[t].pre)
                /\ failed' = TRUE
                /\ UNCHANGED <<txns, returned>>
    /\ thread' = [thread EXCEPT ![t] = Idle]
    /\ took' = 0
    /\ UNCHANGED <<store, durable, resumed, committed, nCalls>>
    /\ UNCHANGED <<codecVars, sstVars, metaVars>>

\* begin that undoes its TxnActive marker when restore fails
BeginRestoreRollback(t) ==
    /\ thread[t].pc = "begin_restore"
    /\ LET id == thread[t].id
           mode == thread[t].mode
           r == restore(store, mode.version)
           txn == Transaction(id, mode, r.snapshot)
       IN  IF r.ok
           THEN /\ ret' = RetOk("begin", id, txn, thread[t].pre)
                /\ txns' = txns \cup {txn}
                /\ returned' = Append(returned, id)
                /\ failed' = failed
                /\ store' = store
           ELSE /\ ret' = RetErr("begin", id, r.err, thread[t].pre)
                /\ failed' = TRUE
                /\ store' = delete(store, encode(TxnActive(id)))
                /\ UNCHANGED <<txns, returned>>
    /\ thread' = [thread EXCEPT ![t] = Idle]
    /\ took' = 0
    /\ UNCHANGED <<durable, resumed, committed, nCalls>>
    /\ UNCHANGED <<codecVars, sstVars, metaVars>>

\* Transaction::begin, lines 37-41, for Mode::Snapshot: the working snapshot
\* is the restored one; a missing snapshot is the error of begin
BeginRestore(t) ==
    /\ thread[t].pc = "begin_restore"
    /\ LET id == thread[t].id
           mode == thread[t].mode
           r == restore(store, mode.version)
           txn == Transaction(id, mode, r.snapshot)
       IN  IF r.ok
           THEN /\ ret' = RetOk("begin", id, txn, thread[t].pre)
                /\ txns' = txns \cup {txn}
                /\ returned' = Append(returned, id)
                /\ failed' = failed
           ELSE /\ ret' = RetErr("begin", id, r.err, thread[t].pre)
                /\ failed' = TRUE
                /\ UNCHANGED <<txns, returned>>
    /\ thread' = [thread EXCEPT ![t] = Idle]
    /\ took' = 0
    /\ UNCHANGED <<store, durable, resumed, committed, nCalls>>
    /\ UNCHANGED <<codecVars, sstVars, metaVars>>

\* ------------------------------------------------------------------ resume
\* Transaction::resume, lines 46-49: the mode stored under TxnActive(id), or
\* the Value error
ResumeGet(t, id) ==
    /\ CanCall(t)
    /\ LET v == resume_mode(store, id)
       IN  IF v.some
           THEN /\ thread' = [thread EXCEPT ![t] =
                        [pc |-> "resume_restore", id |-> id, mode |-> deserialize(v.value),
                         invisible |-> {}, pre |-> store]]
                /\ ret' = NoRet
           ELSE /\ thread' = [thread EXCEPT ![t] = Idle]
                /\ ret' = RetErr("resume", id, ErrValue("No active transaction", id), store)
    /\ nCalls' = nCalls + 1
    /\ took' = 0
    /\ UNCHANGED <<store, durable, txns, resumed, returned, committed, failed>>
    /\ UNCHANGED <<codecVars, sstVars, metaVars>>

\* Transaction::resume, lines 52-56: restore the snapshot of the mode's
\* version for Mode::Snapshot, of the id otherwise
ResumeRestore(t) ==
    /\ thread[t].pc = "resume_restore"
    /\ LET id == thread[t].id
           mode == thread[t].mode
           r == restore(store, resume_version(id, mode))
           txn == Transaction(id, mode, r.snapshot)
       IN  IF r.ok
           THEN /\ ret' = RetOk("resume", id, txn, thread[t].pre)
                /\ resumed' = resumed \cup {txn}
           ELSE /\ ret' = RetErr("resume", id, r.err, thread[t].pre)
                /\ UNCHANGED resumed
    /\ thread' = [thread EXCEPT ![t] = Idle]
    /\ took' = 0
    /\ UNCHANGED <<store, durable, txns, returned, committed, failed, nCalls>>
    /\ UNCHANGED <<codecVars, sstVars, metaVars>>

\* ------------------------------------------------------------------ commit
\* Transaction::commit, line 71: delete TxnActive(self.id)
CommitDelete(t, self) ==
    /\ CanCall(t)
    /\ nCalls' = nCalls + 1
    /\ store' = delete(store, commit_key(self))
    /\ thread' = [thread EXCEPT ![t] =
           [pc |-> "commit_flush", id |-> self.id, mode |-> self.mode,
            invisible |-> {}, pre |-> store]]
    /\ committed' = committed \cup {self.id}
    /\ ret' = NoRet
    /\ took' = 0
    /\ UNCHANGED <<durable, returned, failed>>
    /\ UNCHANGED <<codecVars, sstVars, metaVars>>

\* commit(self) of a transaction that begin returned: the object is consumed
Commit(t, self) ==
    /\ self \in txns
    /\ CommitDelete(t, self)
    /\ txns' = txns \ {self}
    /\ UNCHANGED resumed

\* commit(self) of a transaction that resume returned
CommitResumed(t, self) ==
    /\ self \in resumed
    /\ CommitDelete(t, self)
    /\ resumed' = resumed \ {self}
    /\ UNCHANGED txns

\* commit that flushed before it deleted: what is durable is the store as
\* commit found it
CommitFlushFirst(t) ==
    /\ thread[t].pc = "commit_flush"
    /\ durable' = thread[t].pre
    /\ ret' = RetOk("commit", thread[t].id, NoTxn, thread[t].pre)
    /\ thread' = [thread EXCEPT ![t] = Idle]
    /\ took' = 0
    /\ UNCHANGED <<store, txns, resumed, returned, committed, failed, nCalls>>
    /\ UNCHANGED <<codecVars, sstVars, metaVars>>

\* Transaction::commit, line 72: flush the store
CommitFlush(t) ==
    /\ thread[t].pc = "commit_flush"
    /\ durable' = store
    /\ ret' = RetOk("commit", thread[t].id, NoTxn, thread[t].pre)
    /\ thread' = [thread EXCEPT ![t] = Idle]
    /\ took' = 0
    /\ UNCHANGED <<store, txns, resumed, returned, committed, failed, nCalls>>
    /\ UNCHANGED <<codecVars, sstVars, metaVars>>

\* ------------------------------------------------------------------ specifications
\* one store call of thread t
Step(t) ==
    \/ \E mode \in Modes : BeginGetNext(t, mode)
    \/ BeginSetNext(t)
    \/ BeginSetActive(t)
    \/ TakeScan(t)
    \/ TakeSet(t)
    \/ BeginRestore(t)
    \/ \E id \in Ids : ResumeGet(t, id)
    \/ ResumeRestore(t)
    \/ \E self \in txns : Commit(t, self)
    \/ \E self \in resumed : CommitResumed(t, self)
    \/ CommitFlush(t)

\* the threads' store calls interleave
Next == \E t \in Threads : Step(t)

Spec == Init /\ [][Next]_vars

\* no thread is in a call
AllIdle == \A u \in Threads : thread[u].pc = "idle"

\* one store call of thread t when no call overlaps another: a call starts
\* only while no thread is in a call
SeqStep(t) ==
    \/ \E mode \in Modes : AllIdle /\ BeginGetNext(t, mode)
    \/ BeginSetNext(t)
    \/ BeginSetActive(t)
    \/ TakeScan(t)
    \/ TakeSet(t)
    \/ BeginRestore(t)
    \/ \E id \in Ids : AllIdle /\ ResumeGet(t, id)
    \/ ResumeRestore(t)
    \/ \E self \in txns : AllIdle /\ Commit(t, self)
    \/ \E self \in resumed : AllIdle /\ CommitResumed(t, self)
    \/ CommitFlush(t)

\* the calls run one at a time
SeqNext == \E t \in Threads : SeqStep(t)

SeqSpec == Init /\ [][SeqNext]_vars

\* ------------------------------------------------------------------ the key codec at work
\* the longest byte string in a key
MaxKeyLen == 2
\* the number of edits made to an encoded key before it is decoded
MaxEdits == 2

\* the bytes of the byte strings: the escaped byte 0x00, the escape byte 0xff
\* and a plain one
ByteValues == {0, 1, 255}

\* the byte strings of keys, the empty one included
ByteStrings == UNION {[1..n -> ByteValues] : n \in 0..MaxKeyLen}

\* the ids and versions of keys, on both sides of a byte boundary
U64Values == {0, 1, 2, 255, 256}

\* the first bytes given to decode: the six tags and bytes that are none
TagValues == {0, 1, 2, 3, 4, 5, 6, 254, 255}

\* the keys given to encode: every variant of MvccKey
Keys ==
    {TxnNext}
    \cup {TxnActive(id) : id \in U64Values}
    \cup {TxnSnapshot(version) : version \in U64Values}
    \cup {TxnUpdate(id, k) : id \in U64Values, k \in ByteStrings}
    \cup {Metadata(k) : k \in ByteStrings}
    \cup {Record(k, version) : k \in ByteStrings, version \in U64Values}

\* a store that holds a key of every variant and field value
KeyStore == [k \in {encode(x) : x \in Keys} |-> serialize(ReadWrite)]

\* the eight bytes take_u64 reads are below 2^31, the integers of the model
SmallU64(b) ==
    IF Len(b) < 8 THEN TRUE ELSE (\A i \in 1..4 : b[i] = 0) /\ b[5] < 128

\* the byte strings decode is given: an integer field, where the tag has
\* one, is below 2^31
Representable(b) ==
    IF b = <<>> THEN TRUE
    ELSE IF Head(b) \in {2, 3, 4} THEN SmallU64(Tail(b))
    ELSE IF Head(b) = 255
         THEN take_bytes(Tail(b)).ok => SmallU64(take_bytes(Tail(b)).rest)
    ELSE TRUE

\* MvccKey::decode, the error it returns: of take_byte on an empty string, of
\* an unknown tag (line 185), of a field that does not parse, of bytes left
\* over (lines 187-189)
decode_err(b) ==
    IF Len(b) = 0 THEN ErrInternal("Unexpected end of bytes")
    ELSE LET tag == Head(b)
             body == Tail(b)
             done(ok, rest) ==
                 IF ~ok THEN ErrInternal("Unexpected end of bytes")
                 ELSE IF rest # <<>>
                      THEN ErrInternal("Unexpected data remaining at end of key")
                 ELSE NoErr
         IN  CASE tag = 1 -> done(TRUE, body)
               [] tag \in {2, 3} -> done(take_u64(body).ok, take_u64(body).rest)
               [] tag = 4 -> LET a == take_u64(body)
                                 c == take_bytes(a.rest)
                             IN  done(a.ok /\ c.ok, c.rest)
               [] tag = 5 -> done(take_bytes(body).ok, take_bytes(body).rest)
               [] tag = 255 -> LET c == take_bytes(body)
                                   a == take_u64(c.rest)
                               IN  done(c.ok /\ a.ok, a.rest)
               [] OTHER -> ErrInternal("Unknown MVCC key prefix")

\* the codec is given a key
CodecInit ==
    /\ store = EmptyStore
    /\ durable = EmptyStore
    /\ thread = [t \in Threads |-> Idle]
    /\ txns = {}
    /\ resumed = {}
    /\ nCalls = 0
    /\ returned = <<>>
    /\ committed = {}
    /\ failed = FALSE
    /\ ret = NoRet
    /\ took = 0
    /\ inKey \in Keys
    /\ wire = <<>>
    /\ edits = 0
    /\ result = NoResult
    /\ SstIdle
    /\ MetaIdle

\* MvccKey::encode of the key
EncodeKey ==
    /\ wire = <<>> /\ edits = 0 /\ result = NoResult
    /\ wire' = encode(inKey)
    /\ UNCHANGED <<inKey, edits, result, txnVars, sstVars, metaVars>>

\* the encoded key is ready and nothing was done with it yet
Encoded == wire # <<>> /\ edits = 0 /\ result = NoResult

\* the byte string can be edited once more
CanEdit ==
    /\ wire # <<>> \/ edits > 0
    /\ edits < MaxEdits
    /\ result = NoResult

\* a byte is added at the end of the byte string
AppendByte(b) ==
    /\ CanEdit
    /\ wire' = Append(wire, b)
    /\ edits' = edits + 1
    /\ UNCHANGED <<inKey, result, txnVars, sstVars, metaVars>>

\* the last byte of the byte string is cut off
Truncate ==
    /\ CanEdit
    /\ wire # <<>>
    /\ wire' = SubSeq(wire, 1, Len(wire) - 1)
    /\ edits' = edits + 1
    /\ UNCHANGED <<inKey, result, txnVars, sstVars, metaVars>>

\* the tag of the encoded key is replaced
ReplaceTag(tag) ==
    /\ Encoded
    /\ tag # Head(wire)
    /\ wire' = <<tag>> \o Tail(wire)
    /\ edits' = edits + 1
    /\ UNCHANGED <<inKey, result, txnVars, sstVars, metaVars>>

\* decode that ignores what is left after the fields
DecodeLenient ==
    /\ wire # <<>> \/ edits > 0
    /\ result = NoResult
    /\ Representable(wire)
    /\ result' = [NoResult EXCEPT
           !.op = "decode",
           !.key = IF decode_err(wire) = ErrInternal("Unexpected data remaining at end of key")
                   THEN TxnNext ELSE decode(wire),
           !.err = IF decode_err(wire) = ErrInternal("Unexpected data remaining at end of key")
                   THEN NoErr ELSE decode_err(wire)]
    /\ UNCHANGED <<inKey, wire, edits, txnVars, sstVars, metaVars>>

\* MvccKey::decode of the byte string
Decode ==
    /\ wire # <<>> \/ edits > 0
    /\ result = NoResult
    /\ Representable(wire)
    /\ result' = [NoResult EXCEPT !.op = "decode", !.key = decode(wire),
                                  !.err = decode_err(wire)]
    /\ UNCHANGED <<inKey, wire, edits, txnVars, sstVars, metaVars>>

\* the encoded key is compared, as byte strings are in the store, with the
\* encoding of another key
Compare(b) ==
    /\ Encoded
    /\ result' = [NoResult EXCEPT !.op = "compare", !.other = b,
                                  !.less = BytesLess(wire, encode(b))]
    /\ UNCHANGED <<inKey, wire, edits, txnVars, sstVars, metaVars>>

\* Snapshot::take, lines 115-123, with the key as TxnActive(version) and on a
\* store that holds keys of every variant: the scan of
\* TxnActive(0)..TxnActive(version) and the ids it collects
ScanBelow ==
    /\ Encoded
    /\ inKey.variant = "TxnActive"
    /\ result' = [NoResult EXCEPT
           !.op = IF take_scan(KeyStore, inKey.id).ok THEN "scan" ELSE "scan failed",
           !.found = scan(KeyStore, encode(TxnActive(0)), wire),
           !.invisible = take_scan(KeyStore, inKey.id).invisible]
    /\ UNCHANGED <<inKey, wire, edits, txnVars, sstVars, metaVars>>

CodecNext ==
    \/ EncodeKey
    \/ \E b \in ByteValues : AppendByte(b)
    \/ Truncate
    \/ \E tag \in TagValues : ReplaceTag(tag)
    \/ Decode
    \/ \E b \in Keys : Compare(b)
    \/ ScanBelow

CodecSpec == CodecInit /\ [][CodecNext]_vars

\* ------------------------------------------------------------------ the SSTable
\* the number of calls of add
MaxAdds == 3
\* the longest key given to add, the key of 2^16 bytes apart
MaxSstKeyLen == 1
\* the number of calls of next after the last pair was returned
MaxNones == 2
\* the largest u16, the width of first_key_len in a meta entry
MaxU16 == 65535

\* the bytes of the keys given to add
SstByteValues == {1, 2}
\* the keys given to add, the empty key included
SstKeys == UNION {[1..n -> SstByteValues] : n \in 0..MaxSstKeyLen}
\* the values given to add
SstValues == {<<>>, <<7>>}
\* A byte string of the SSTable is a sequence whose elements are bytes,
\* 0..255, or runs: the element -(n * 256 + b) stands for n >= 2 bytes b in a
\* row. Keys of up to MaxSstKeyLen bytes, values and what is made of them
\* hold no run; the run is the way to write down a key of 2^16 bytes.
Run(b, n) == IF n = 1 THEN <<b>> ELSE IF n = 0 THEN <<>> ELSE <<-(n * 256 + b)>>
\* the number of bytes an element stands for, and the byte
ElemLen(e) == IF e < 0 THEN (-e) \div 256 ELSE 1
ElemByte(e) == IF e < 0 THEN (-e) % 256 ELSE e

\* the length of a byte string in bytes
RECURSIVE ByteLen(_)
ByteLen(b) == IF b = <<>> THEN 0 ELSE ElemLen(Head(b)) + ByteLen(Tail(b))

\* the byte string without its first n bytes
RECURSIVE Drop(_, _)
Drop(b, n) ==
    IF n <= 0 \/ b = <<>> THEN b
    ELSE IF ElemLen(Head(b)) <= n THEN Drop(Tail(b), n - ElemLen(Head(b)))
    ELSE Run(ElemByte(Head(b)), ElemLen(Head(b)) - n) \o Tail(b)

\* the first n bytes of the byte string
RECURSIVE Take(_, _)
Take(b, n) ==
    IF n <= 0 \/ b = <<>> THEN <<>>
    ELSE IF ElemLen(Head(b)) <= n
         THEN <<Head(b)>> \o Take(Tail(b), n - ElemLen(Head(b)))
    ELSE Run(ElemByte(Head(b)), n)

\* the bytes of a short byte string one by one, as get_u32 and get_u16 read
\* them
RECURSIVE Plain(_)
Plain(b) ==
    IF b = <<>> THEN <<>>
    ELSE IF Head(b) < 0
         THEN <<ElemByte(Head(b))>>
              \o Plain(Run(ElemByte(Head(b)), ElemLen(Head(b)) - 1) \o Tail(b))
    ELSE <<Head(b)>> \o Plain(Tail(b))

\* a key one byte longer than first_key_len can tell
LongKey == Run(127, MaxU16 + 1)

\* a <= b as byte strings
BytesLeq(a, b) == IF a = b THEN TRUE ELSE BytesLess(a, b)

\* struct BlockMeta { offset, first_key }
BlockMeta(offset, first_key) == [offset |-> offset, first_key |-> first_key]

\* encode_block_meta that writes the length of the key before the offset
RECURSIVE encode_block_meta_len_first(_, _)
encode_block_meta_len_first(block_meta, buffer) ==
    IF block_meta = <<>> THEN buffer
    ELSE LET meta == Head(block_meta)
         IN  encode_block_meta_len_first(Tail(block_meta),
                 buffer \o BigEndian(ByteLen(meta.first_key), 2)
                        \o BigEndian(meta.offset, 4)
                        \o meta.first_key)

\* encode_block_meta that keeps one byte of the length of the key
RECURSIVE encode_block_meta_u8_len(_, _)
encode_block_meta_u8_len(block_meta, buffer) ==
    IF block_meta = <<>> THEN buffer
    ELSE LET meta == Head(block_meta)
         IN  encode_block_meta_u8_len(Tail(block_meta),
                 buffer \o BigEndian(meta.offset, 4)
                        \o BigEndian(ByteLen(meta.first_key) % 256, 2)
                        \o meta.first_key)

\* BlockMeta::encode_block_meta: for every meta put_u32(offset as u32),
\* put_u16(first_key.len() as u16) and the key, appended to the buffer; the
\* casts keep the low 4 and the low 2 bytes
RECURSIVE encode_block_meta(_, _)
encode_block_meta(block_meta, buffer) ==
    IF block_meta = <<>> THEN buffer
    ELSE LET meta == Head(block_meta)
         IN  encode_block_meta(Tail(block_meta),
                 buffer \o BigEndian(meta.offset, 4)
                        \o BigEndian(ByteLen(meta.first_key), 2)
                        \o meta.first_key)

\* BlockMeta::decode_block_meta: while bytes remain, get_u32, get_u16 and
\* copy_to_bytes(first_key_len); each of them panics when the buffer is short
RECURSIVE decode_block_meta(_)
decode_block_meta(buffer) ==
    IF buffer = <<>> THEN [panic |-> FALSE, block_meta |-> <<>>]
    ELSE IF ByteLen(buffer) < 6 THEN [panic |-> TRUE, block_meta |-> <<>>]
    ELSE LET offset == FromBigEndian(Plain(Take(buffer, 4)))
             first_key_len == FromBigEndian(Plain(Take(Drop(buffer, 4), 2)))
         IN  IF ByteLen(buffer) < 6 + first_key_len
             THEN [panic |-> TRUE, block_meta |-> <<>>]
             ELSE LET first_key == Take(Drop(buffer, 6), first_key_len)
                      rest == decode_block_meta(Drop(buffer, 6 + first_key_len))
                  IN  [panic |-> rest.panic,
                       block_meta |-> IF rest.panic THEN <<>>
                                      ELSE <<BlockMeta(offset, first_key)>> \o rest.block_meta]

\* Block::encode of the entries of a block: every entry as key_len (2 bytes),
\* key, value_len (2 bytes), value, and then the number of entries (2 bytes)
RECURSIVE block_encode_entries(_)
block_encode_entries(entries) ==
    IF entries = <<>> THEN <<>>
    ELSE LET e == Head(entries)
         IN  BigEndian(ByteLen(e[1]), 2) \o e[1] \o BigEndian(ByteLen(e[2]), 2) \o e[2]
             \o block_encode_entries(Tail(entries))

block_encode(entries) == block_encode_entries(entries) \o BigEndian(Len(entries), 2)

\* Block::decode: the entries of an encoded block
RECURSIVE block_decode_entries(_, _)
block_decode_entries(bytes, n) ==
    IF n = 0 THEN <<>>
    ELSE LET key_len == FromBigEndian(Plain(Take(bytes, 2)))
             k == Take(Drop(bytes, 2), key_len)
             value_len == FromBigEndian(Plain(Take(Drop(bytes, 2 + key_len), 2)))
             v == Take(Drop(bytes, 4 + key_len), value_len)
         IN  <<<<k, v>>>>
             \o block_decode_entries(Drop(bytes, 4 + key_len + value_len), n - 1)

block_decode(bytes) ==
    block_decode_entries(bytes, FromBigEndian(Plain(Drop(bytes, ByteLen(bytes) - 2))))

\* FileObject::create: the bytes written and their number
FileObject(data) == [state |-> "file", bytes |-> data, size |-> ByteLen(data)]

\* FileObject::read: exactly len bytes from offset, or an error
file_read(f, offset, len) ==
    IF offset >= 0 /\ len >= 0 /\ offset + len <= ByteLen(f.bytes)
    THEN [ok |-> TRUE, bytes |-> Take(Drop(f.bytes, offset), len)]
    ELSE [ok |-> FALSE, bytes |-> <<>>]

\* struct SsTable { block_metas, block_meta_offset } over its file
SsTable(block_metas, block_meta_offset) ==
    [state |-> "table", block_metas |-> block_metas, block_meta_offset |-> block_meta_offset]

\* open ended in an error of the file, or in a panic of decode_block_meta
OpenErr == [state |-> "err"]
OpenPanic == [state |-> "panic"]

\* SsTable::open: the last four bytes are the offset of the meta block, the
\* bytes from there to the trailer are the metas
open(f) ==
    LET file_len == f.size
        meta_offset_raw == file_read(f, file_len - 4, 4)
        block_meta_offset == FromBigEndian(Plain(meta_offset_raw.bytes))
        meta_raw == file_read(f, block_meta_offset, file_len - 4 - block_meta_offset)
        decoded == decode_block_meta(meta_raw.bytes)
    IN  IF ~meta_offset_raw.ok \/ ~meta_raw.ok THEN OpenErr
        ELSE IF decoded.panic THEN OpenPanic
        ELSE SsTable(decoded.block_meta, block_meta_offset)

\* SsTable::num_of_blocks
num_of_blocks(table) == Len(table.block_metas)

\* SsTable::read_block: the bytes from the offset of block block_idx to the
\* offset of the next block, or to the meta block, decoded
read_block(table, f, block_idx) ==
    LET block_offset == table.block_metas[block_idx + 1].offset
        block_end == IF block_idx + 1 < Len(table.block_metas)
                     THEN table.block_metas[block_idx + 2].offset
                     ELSE table.block_meta_offset
        block_raw == file_read(f, block_offset, block_end - block_offset)
    IN  block_decode(block_raw.bytes)

\* SsTableBuilder::new
SsTableBuilder_new ==
    [state |-> "builder", meta |-> <<>>, data |-> <<>>, cur_block_first_key |-> <<>>,
     block_builder |-> <<>>]

\* SsTableBuilder::finalize_block: the block is encoded and appended to the
\* data, its meta is the offset the data had and the first key on record
finalize_block(self) ==
    [self EXCEPT
        !.block_builder = <<>>,
        !.meta = Append(@, BlockMeta(ByteLen(self.data), self.cur_block_first_key)),
        !.data = @ \o block_encode(self.block_builder)]

\* SsTableBuilder::add: full is the answer of BlockBuilder::add, which is
\* never "full" for an empty block
add(self, k, v, full) ==
    LET first == IF self.cur_block_first_key = <<>>
                 THEN [self EXCEPT !.cur_block_first_key = k]
                 ELSE self
    IN  IF ~full
        THEN [first EXCEPT !.block_builder = Append(@, <<k, v>>)]
        ELSE [finalize_block(first) EXCEPT !.block_builder = <<<<k, v>>>>,
                                           !.cur_block_first_key = k]

\* SsTableBuilder::build: the last block is finalized, the metas and the
\* offset of the meta block (as u32) follow the data, and the table is made
\* of the builder's metas
build(self) ==
    LET final == finalize_block(self)
        block_meta_offset == ByteLen(final.data)
        sst_data == encode_block_meta(final.meta, final.data) \o BigEndian(block_meta_offset, 4)
    IN  [file |-> FileObject(sst_data),
         table |-> SsTable(final.meta, block_meta_offset)]

\* BlockIter::new: nothing returned from either end
BlockIter(block) == [block |-> block, front_index |-> -1, back_index |-> Len(block)]

\* BlockIter::is_valid
block_iter_is_valid(it) == it.front_index + 1 < it.back_index

\* BlockIter::next: the entry after the last one returned from the front,
\* none when the front has met the back
block_iter_next(it) ==
    IF block_iter_is_valid(it)
    THEN [iter |-> [it EXCEPT !.front_index = @ + 1],
          entry |-> Some(it.block[it.front_index + 2])]
    ELSE [iter |-> it, entry |-> None]

\* SsTableIter::new: both cursors unset
SsTableIter == [state |-> "iter", front_block_iter |-> None, back_block_iter |-> None]

\* is_valid that takes the cursors of one block to have met one entry late
is_valid_met_late(self, table) ==
    LET front == self.front_block_iter
        back == self.back_block_iter
    IN  IF front.some /\ back.some
        THEN LET front_idx == front.value.idx
                 back_idx == back.value.idx
                 f_idx == front.value.iter.front_index
                 b_idx == back.value.iter.back_index
             IN  IF front_idx < back_idx
                 THEN \/ front_idx < back_idx - 1
                      \/ f_idx < Len(front.value.iter.block) - 1
                      \/ b_idx > 0
                 ELSE IF front_idx > back_idx THEN FALSE
                 ELSE f_idx < b_idx
        ELSE IF front.some
        THEN LET front_idx == front.value.idx
             IN  \/ 0 <= front_idx /\ front_idx < num_of_blocks(table) - 1
                 \/ /\ front_idx = num_of_blocks(table) - 1
                    /\ block_iter_is_valid(front.value.iter)
        ELSE IF back.some
        THEN LET back_idx == back.value.idx
             IN  \/ 0 < back_idx /\ back_idx < num_of_blocks(table)
                 \/ 0 = back_idx /\ block_iter_is_valid(back.value.iter)
        ELSE TRUE

\* is_valid that does not look at the back cursor of the block after the
\* front block
is_valid_front_only(self, table) ==
    LET front == self.front_block_iter
        back == self.back_block_iter
    IN  IF front.some /\ back.some
        THEN LET front_idx == front.value.idx
                 back_idx == back.value.idx
                 f_idx == front.value.iter.front_index
                 b_idx == back.value.iter.back_index
             IN  IF front_idx < back_idx
                 THEN \/ front_idx < back_idx - 1
                      \/ f_idx < Len(front.value.iter.block) - 1
                 ELSE IF front_idx > back_idx THEN FALSE
                 ELSE f_idx < b_idx - 1
        ELSE IF front.some
        THEN LET front_idx == front.value.idx
             IN  \/ 0 <= front_idx /\ front_idx < num_of_blocks(table) - 1
                 \/ /\ front_idx = num_of_blocks(table) - 1
                    /\ block_iter_is_valid(front.value.iter)
        ELSE IF back.some
        THEN LET back_idx == back.value.idx
             IN  \/ 0 < back_idx /\ back_idx < num_of_blocks(table)
                 \/ 0 = back_idx /\ block_iter_is_valid(back.value.iter)
        ELSE TRUE

\* SsTableIter::is_valid
is_valid(self, table) ==
    LET front == self.front_block_iter
        back == self.back_block_iter
    IN  IF front.some /\ back.some
        THEN LET front_idx == front.value.idx
                 back_idx == back.value.idx
                 f_idx == front.value.iter.front_index
                 b_idx == back.value.iter.back_index
             IN  IF front_idx < back_idx
                 THEN \/ front_idx < back_idx - 1
                      \/ f_idx < Len(front.value.iter.block) - 1
                      \/ b_idx > 0
                 ELSE IF front_idx > back_idx THEN FALSE
                 ELSE f_idx < b_idx - 1
        ELSE IF front.some
        THEN LET front_idx == front.value.idx
             IN  \/ 0 <= front_idx /\ front_idx < num_of_blocks(table) - 1
                 \/ /\ front_idx = num_of_blocks(table) - 1
                    /\ block_iter_is_valid(front.value.iter)
        ELSE IF back.some
        THEN LET back_idx == back.value.idx
             IN  \/ 0 < back_idx /\ back_idx < num_of_blocks(table)
                 \/ 0 = back_idx /\ block_iter_is_valid(back.value.iter)
        ELSE TRUE

\* try_next that does not go on to the next block
try_next_one_block(self, table, f) ==
    IF ~is_valid(self, table) THEN [iter |-> self, entry |-> None, reads |-> 0]
    ELSE LET front == IF self.front_block_iter.some THEN self.front_block_iter.value
                      ELSE [idx |-> 0, iter |-> BlockIter(read_block(table, f, 0))]
             first_read == IF self.front_block_iter.some THEN 0 ELSE 1
             pulled == block_iter_next(front.iter)
         IN  [iter |-> [self EXCEPT !.front_block_iter =
                            Some([idx |-> front.idx, iter |-> pulled.iter])],
              entry |-> pulled.entry,
              reads |-> first_read]

\* try_next that does not ask is_valid first
try_next_unchecked(self, table, f) ==
    IF FALSE THEN [iter |-> self, entry |-> None, reads |-> 0]
    ELSE LET front == IF self.front_block_iter.some THEN self.front_block_iter.value
                      ELSE [idx |-> 0, iter |-> BlockIter(read_block(table, f, 0))]
             first_read == IF self.front_block_iter.some THEN 0 ELSE 1
             pulled == block_iter_next(front.iter)
         IN  IF pulled.entry.some
             THEN [iter |-> [self EXCEPT !.front_block_iter =
                                Some([idx |-> front.idx, iter |-> pulled.iter])],
                   entry |-> pulled.entry,
                   reads |-> first_read]
             ELSE IF front.idx + 1 < num_of_blocks(table)
             THEN LET fresh == block_iter_next(BlockIter(read_block(table, f, front.idx + 1)))
                  IN  [iter |-> [self EXCEPT !.front_block_iter =
                                     Some([idx |-> front.idx + 1, iter |-> fresh.iter])],
                       entry |-> fresh.entry,
                       reads |-> first_read + 1]
             ELSE [iter |-> [self EXCEPT !.front_block_iter =
                                Some([idx |-> front.idx + 1, iter |-> pulled.iter])],
                   entry |-> None,
                   reads |-> first_read]

\* SsTableIter::try_next: none when the iterator is not valid; else the next
\* entry of the front block, or the first of the next block when the front
\* block has no more. reads is the number of calls of read_block_cached
try_next(self, table, f) ==
    IF ~is_valid(self, table) THEN [iter |-> self, entry |-> None, reads |-> 0]
    ELSE LET front == IF self.front_block_iter.some THEN self.front_block_iter.value
                      ELSE [idx |-> 0, iter |-> BlockIter(read_block(table, f, 0))]
             first_read == IF self.front_block_iter.some THEN 0 ELSE 1
             pulled == block_iter_next(front.iter)
         IN  IF pulled.entry.some
             THEN [iter |-> [self EXCEPT !.front_block_iter =
                                Some([idx |-> front.idx, iter |-> pulled.iter])],
                   entry |-> pulled.entry,
                   reads |-> first_read]
             ELSE IF front.idx + 1 < num_of_blocks(table)
             THEN LET fresh == block_iter_next(BlockIter(read_block(table, f, front.idx + 1)))
                  IN  [iter |-> [self EXCEPT !.front_block_iter =
                                     Some([idx |-> front.idx + 1, iter |-> fresh.iter])],
                       entry |-> fresh.entry,
                       reads |-> first_read + 1]
             ELSE [iter |-> [self EXCEPT !.front_block_iter =
                                Some([idx |-> front.idx + 1, iter |-> pulled.iter])],
                   entry |-> None,
                   reads |-> first_read]

\* BlockIter::next_back: the entry before the last one returned from the
\* back, none when the back has met the front
block_iter_next_back(it) ==
    IF block_iter_is_valid(it)
    THEN [iter |-> [it EXCEPT !.back_index = @ - 1],
          entry |-> Some(it.block[it.back_index])]
    ELSE [iter |-> it, entry |-> None]

\* the key is at or after the bound key (included), after it (excluded)
AtOrAfter(k, key, included) == IF included THEN BytesLeq(key, k) ELSE BytesLess(key, k)
\* the key is at or before the bound key (included), before it (excluded)
AtOrBefore(k, key, included) == IF included THEN BytesLeq(k, key) ELSE BytesLess(k, key)

\* BlockIter::create_and_seek_to_key: the front cursor stands before the
\* first entry at or after the key, after the last entry when there is none
block_iter_seek_to_key(block, key, included) ==
    LET found == {j \in 1..Len(block) : AtOrAfter(block[j][1], key, included)}
        first == IF found = {} THEN Len(block) + 1
                 ELSE CHOOSE j \in found : \A i \in found : j <= i
    IN  [block |-> block, front_index |-> first - 2, back_index |-> Len(block)]

\* BlockIter::create_and_back_seek_to_key: the back cursor stands after the
\* last entry at or before the key, before the first entry when there is none
block_iter_back_seek_to_key(block, key, included) ==
    LET found == {j \in 1..Len(block) : AtOrBefore(block[j][1], key, included)}
        last == IF found = {} THEN 0
                ELSE CHOOSE j \in found : \A i \in found : j >= i
    IN  [block |-> block, front_index |-> -1, back_index |-> last]

\* slice::partition_point: the number of leading elements for which the
\* predicate holds, held[i] being what the predicate says of element i
partition_point(held) ==
    LET leading(i) == \A j \in 1..i : held[j]
        ends == {i \in 0..Len(held) : leading(i) /\ (i < Len(held) => ~held[i + 1])}
    IN  CHOOSE i \in ends : TRUE

\* SsTable::front_find_block_idx
front_find_block_idx(table, key) ==
    partition_point([i \in 1..Len(table.block_metas) |->
                        BytesLeq(table.block_metas[i].first_key, key)]) - 1

\* SsTable::back_find_block_idx
back_find_block_idx(table, key) ==
    partition_point([i \in 1..Len(table.block_metas) |->
                        BytesLess(table.block_metas[i].first_key, key)])

\* front_seek_to_key that stays in the block it found
front_seek_to_key_one_block(self, table, f, key, included) ==
    LET block_idx == IF front_find_block_idx(table, key) >= 0
                     THEN front_find_block_idx(table, key) ELSE 0
    IN  [self EXCEPT !.front_block_iter =
            Some([idx |-> block_idx,
                  iter |-> block_iter_seek_to_key(read_block(table, f, block_idx),
                                                  key, included)])]

\* SsTableIter::front_seek_to_key: seek in the block found for the key, and
\* in the block after it when that block has nothing at or after the key
front_seek_to_key(self, table, f, key, included) ==
    LET block_idx == front_find_block_idx(table, key)
    IN  IF block_idx >= 0
        THEN LET block_iter == block_iter_seek_to_key(read_block(table, f, block_idx),
                                                      key, included)
             IN  IF ~block_iter_is_valid(block_iter)
                 THEN IF block_idx + 1 < num_of_blocks(table)
                      THEN [self EXCEPT !.front_block_iter =
                               Some([idx |-> block_idx + 1,
                                     iter |-> block_iter_seek_to_key(
                                                  read_block(table, f, block_idx + 1),
                                                  key, included)])]
                      ELSE [self EXCEPT !.front_block_iter =
                               Some([idx |-> block_idx + 1, iter |-> block_iter])]
                 ELSE [self EXCEPT !.front_block_iter =
                          Some([idx |-> block_idx, iter |-> block_iter])]
        ELSE [self EXCEPT !.front_block_iter =
                 Some([idx |-> block_idx + 1,
                       iter |-> block_iter_seek_to_key(read_block(table, f, block_idx + 1),
                                                       key, included)])]

\* SsTableIter::back_seek_to_key: seek in the block found for the key, and
\* in the block before it when that block has nothing at or before the key
back_seek_to_key(self, table, f, key, included) ==
    LET block_idx == back_find_block_idx(table, key)
    IN  IF block_idx < num_of_blocks(table)
        THEN LET block_iter == block_iter_back_seek_to_key(
                                   read_block(table, f, block_idx), key, included)
             IN  IF ~block_iter_is_valid(block_iter)
                 THEN IF block_idx - 1 >= 0
                      THEN [self EXCEPT !.back_block_iter =
                               Some([idx |-> block_idx - 1,
                                     iter |-> block_iter_back_seek_to_key(
                                                  read_block(table, f, block_idx - 1),
                                                  key, included)])]
                      ELSE [self EXCEPT !.back_block_iter =
                               Some([idx |-> block_idx - 1, iter |-> block_iter])]
                 ELSE [self EXCEPT !.back_block_iter =
                          Some([idx |-> block_idx, iter |-> block_iter])]
        ELSE [self EXCEPT !.back_block_iter =
                 Some([idx |-> block_idx - 1,
                       iter |-> block_iter_back_seek_to_key(
                                    read_block(table, f, block_idx - 1), key, included)])]

\* the bounds of a range
Unbounded == [kind |-> "Unbounded"]
Included(v) == [kind |-> "Included", v |-> v]
Excluded(v) == [kind |-> "Excluded", v |-> v]

\* SsTableIter::create: a front seek for the start bound, a back seek for the
\* end bound, none for an unbounded side
create(table, f, range) ==
    LET this == SsTableIter
        front == IF range.start_bound.kind = "Unbounded" THEN this
                 ELSE front_seek_to_key(this, table, f, range.start_bound.v,
                                        range.start_bound.kind = "Included")
    IN  IF range.end_bound.kind = "Unbounded" THEN front
        ELSE back_seek_to_key(front, table, f, range.end_bound.v,
                              range.end_bound.kind = "Included")

\* try_next_back that does not go on to the block before
try_next_back_one_block(self, table, f) ==
    IF ~is_valid(self, table) THEN [iter |-> self, entry |-> None, reads |-> 0]
    ELSE LET back == IF self.back_block_iter.some THEN self.back_block_iter.value
                     ELSE [idx |-> num_of_blocks(table) - 1,
                           iter |-> BlockIter(read_block(table, f, num_of_blocks(table) - 1))]
             first_read == IF self.back_block_iter.some THEN 0 ELSE 1
             pulled == block_iter_next_back(back.iter)
         IN  [iter |-> [self EXCEPT !.back_block_iter =
                            Some([idx |-> back.idx, iter |-> pulled.iter])],
              entry |-> pulled.entry,
              reads |-> first_read]

\* SsTableIter::try_next_back: none when the iterator is not valid; else the
\* entry before the last one returned from the back, or the last of the block
\* before when the back block has no more
try_next_back(self, table, f) ==
    IF ~is_valid(self, table) THEN [iter |-> self, entry |-> None, reads |-> 0]
    ELSE LET back == IF self.back_block_iter.some THEN self.back_block_iter.value
                     ELSE [idx |-> num_of_blocks(table) - 1,
                           iter |-> BlockIter(read_block(table, f, num_of_blocks(table) - 1))]
             first_read == IF self.back_block_iter.some THEN 0 ELSE 1
             pulled == block_iter_next_back(back.iter)
         IN  IF pulled.entry.some
             THEN [iter |-> [self EXCEPT !.back_block_iter =
                                Some([idx |-> back.idx, iter |-> pulled.iter])],
                   entry |-> pulled.entry,
                   reads |-> first_read]
             ELSE IF back.idx - 1 >= 0
             THEN LET fresh == block_iter_next_back(
                                   BlockIter(read_block(table, f, back.idx - 1)))
                  IN  [iter |-> [self EXCEPT !.back_block_iter =
                                     Some([idx |-> back.idx - 1, iter |-> fresh.iter])],
                       entry |-> fresh.entry,
                       reads |-> first_read + 1]
             ELSE [iter |-> [self EXCEPT !.back_block_iter =
                                Some([idx |-> back.idx - 1, iter |-> pulled.iter])],
                   entry |-> None,
                   reads |-> first_read]

\* a builder was made, and nothing was added yet
SstInit ==
    /\ store = EmptyStore
    /\ durable = EmptyStore
    /\ thread = [t \in Threads |-> Idle]
    /\ txns = {}
    /\ resumed = {}
    /\ nCalls = 0
    /\ returned = <<>>
    /\ committed = {}
    /\ failed = FALSE
    /\ ret = NoRet
    /\ took = 0
    /\ CodecIdle
    /\ MetaIdle
    /\ sstBuilder = SsTableBuilder_new
    /\ sstAdded = <<>>
    /\ sstFile = NoFile
    /\ sstTable = NoTable
    /\ sstOpened = NoTable
    /\ sstIter = NoIter
    /\ sstOut = NoOut

\* the key of the last call of add, the empty key when there was none
LastKey == IF sstAdded = <<>> THEN <<>> ELSE sstAdded[Len(sstAdded)][1]

\* builder.add(k, v) with a key not below the last one; full is what
\* BlockBuilder::add answers, and it takes any pair when the block is empty.
\* The key of 2^16 bytes is given to the first call only, and is the last
SstAdd(k, v, full) ==
    /\ sstBuilder # NoBuilder
    /\ Len(sstAdded) < MaxAdds
    /\ ByteLen(LastKey) <= MaxU16
    /\ ByteLen(k) > MaxU16 => sstAdded = <<>>
    /\ BytesLeq(LastKey, k)
    /\ full => sstBuilder.block_builder # <<>>
    /\ sstBuilder' = add(sstBuilder, k, v, full)
    /\ sstAdded' = Append(sstAdded, <<k, v>>)
    /\ UNCHANGED <<sstFile, sstTable, sstOpened, sstIter, sstOut, txnVars, codecVars, metaVars>>

\* builder.build(..): the builder is consumed, the file is written
SstBuild ==
    /\ sstBuilder # NoBuilder
    /\ sstBuilder' = NoBuilder
    /\ sstFile' = build(sstBuilder).file
    /\ sstTable' = build(sstBuilder).table
    /\ UNCHANGED <<sstAdded, sstOpened, sstIter, sstOut, txnVars, codecVars, metaVars>>

\* SsTable::open(file) of the file that build wrote
SstOpen ==
    /\ sstFile # NoFile
    /\ sstOpened = NoTable
    /\ sstOpened' = open(sstFile)
    /\ UNCHANGED <<sstBuilder, sstAdded, sstFile, sstTable, sstIter, sstOut, txnVars, codecVars, metaVars>>

\* every key given to add is shorter than 2^16 bytes
ShortKeys == \A i \in 1..Len(sstAdded) : ByteLen(sstAdded[i][1]) <= MaxU16

\* SsTableIter::new(table) of the table that build returned, once the file
\* has been opened
SstIterNew ==
    /\ sstTable # NoTable
    /\ sstOpened # NoTable
    /\ sstIter = NoIter
    /\ ShortKeys
    /\ sstIter' = SsTableIter
    /\ UNCHANGED <<sstBuilder, sstAdded, sstFile, sstTable, sstOpened, sstOut, txnVars, codecVars, metaVars>>

\* iter.next()
SstIterNext ==
    /\ sstIter # NoIter
    /\ sstOut.nones < MaxNones
    /\ LET r == try_next(sstIter, sstTable, sstFile)
       IN  /\ sstIter' = r.iter
           /\ sstOut' = IF r.entry.some
                        THEN [sstOut EXCEPT !.emitted = Append(@, r.entry.value)]
                        ELSE [sstOut EXCEPT !.nones = @ + 1]
    /\ UNCHANGED <<sstBuilder, sstAdded, sstFile, sstTable, sstOpened, txnVars, codecVars, metaVars>>

SstNext ==
    \/ \E k \in SstKeys \cup {LongKey}, v \in SstValues, full \in BOOLEAN : SstAdd(k, v, full)
    \/ SstBuild
    \/ SstOpen
    \/ SstIterNew
    \/ SstIterNext

SstSpec == SstInit /\ [][SstNext]_vars

\* ------------------------------------------ the iterator of an SST at work

\* mid-life seeks of one iterator
MaxSeeks == 1

\* value_of(idx) of the tests: a value that tells the pairs apart
value_of(idx) == <<idx>>

\* what the calls of one iterator returned: the entries from the front, the
\* entries from the back, the number of calls that returned none, which of
\* next and next_back were called, how the iterator was made, the seeks made
\* on it since, and the last call
NoCalls ==
    [emitted |-> <<>>, back |-> <<>>, nones |-> 0, ops |-> {}, made |-> "none",
     range |-> [start_bound |-> Unbounded, end_bound |-> Unbounded],
     seeks |-> 0, last |-> [op |-> "none"]]

\* a builder was made, and nothing was added yet
IterInit ==
    /\ store = EmptyStore
    /\ durable = EmptyStore
    /\ thread = [t \in Threads |-> Idle]
    /\ txns = {}
    /\ resumed = {}
    /\ nCalls = 0
    /\ returned = <<>>
    /\ committed = {}
    /\ failed = FALSE
    /\ ret = NoRet
    /\ took = 0
    /\ CodecIdle
    /\ MetaIdle
    /\ sstBuilder = SsTableBuilder_new
    /\ sstAdded = <<>>
    /\ sstFile = NoFile
    /\ sstTable = NoTable
    /\ sstOpened = NoTable
    /\ sstIter = NoIter
    /\ sstOut = NoCalls

\* builder.add(k, value_of(idx)) as generate_sst calls it, the keys not
\* decreasing
IterAdd(k, full) ==
    /\ sstBuilder # NoBuilder
    /\ Len(sstAdded) < MaxAdds
    /\ BytesLeq(LastKey, k)
    /\ full => sstBuilder.block_builder # <<>>
    /\ sstBuilder' = add(sstBuilder, k, value_of(Len(sstAdded)), full)
    /\ sstAdded' = Append(sstAdded, <<k, value_of(Len(sstAdded))>>)
    /\ UNCHANGED <<sstFile, sstTable, sstOpened, sstIter, sstOut, txnVars, codecVars, metaVars>>

\* the bounds a range may have
Bounds == {Unbounded} \cup {Included(k) : k \in SstKeys} \cup {Excluded(k) : k \in SstKeys}

\* SsTableIter::new(table)
IterNew ==
    /\ sstTable # NoTable
    /\ sstIter = NoIter
    /\ sstIter' = SsTableIter
    /\ sstOut' = [NoCalls EXCEPT !.made = "new", !.last = [op |-> "new"]]
    /\ UNCHANGED <<sstBuilder, sstAdded, sstFile, sstTable, sstOpened, txnVars, codecVars, metaVars>>

\* SsTableIter::create(table, range)
IterCreate(start_bound, end_bound) ==
    /\ sstTable # NoTable
    /\ sstIter = NoIter
    /\ LET range == [start_bound |-> start_bound, end_bound |-> end_bound]
       IN  /\ sstIter' = create(sstTable, sstFile, range)
           /\ sstOut' = [NoCalls EXCEPT !.made = "create", !.range = range,
                                        !.last = [op |-> "create"]]
    /\ UNCHANGED <<sstBuilder, sstAdded, sstFile, sstTable, sstOpened, txnVars, codecVars, metaVars>>

\* iter.front_seek_to_key(key, included) on an iterator of new in use: what
\* was returned before is left behind
IterFrontSeek(key, included) ==
    /\ sstIter # NoIter
    /\ sstOut.made = "new"
    /\ sstOut.seeks < MaxSeeks
    /\ sstIter' = front_seek_to_key(sstIter, sstTable, sstFile, key, included)
    /\ sstOut' = [sstOut EXCEPT !.emitted = <<>>, !.back = <<>>, !.nones = 0,
                                !.ops = {}, !.seeks = @ + 1,
                                !.last = [op |-> "front_seek_to_key", key |-> key,
                                          included |-> included, before |-> sstIter]]
    /\ UNCHANGED <<sstBuilder, sstAdded, sstFile, sstTable, sstOpened, txnVars, codecVars, metaVars>>

\* iter.back_seek_to_key(key, included) on an iterator of new in use
IterBackSeek(key, included) ==
    /\ sstIter # NoIter
    /\ sstOut.made = "new"
    /\ sstOut.seeks < MaxSeeks
    /\ sstIter' = back_seek_to_key(sstIter, sstTable, sstFile, key, included)
    /\ sstOut' = [sstOut EXCEPT !.emitted = <<>>, !.back = <<>>, !.nones = 0,
                                !.ops = {}, !.seeks = @ + 1,
                                !.last = [op |-> "back_seek_to_key", key |-> key,
                                          included |-> included, before |-> sstIter]]
    /\ UNCHANGED <<sstBuilder, sstAdded, sstFile, sstTable, sstOpened, txnVars, codecVars, metaVars>>

\* what a call of next or next_back leaves on record: what it returned, the
\* blocks it read, the iterator it was called on and whether that was valid,
\* and the call before it
Called(op, r) ==
    [op |-> op, entry |-> r.entry, reads |-> r.reads, before |-> sstIter,
     valid |-> is_valid(sstIter, sstTable),
     after |-> IF sstOut.last.op \in {"front_seek_to_key", "back_seek_to_key"}
               THEN [op |-> sstOut.last.op, key |-> sstOut.last.key,
                     included |-> sstOut.last.included]
               ELSE [op |-> sstOut.last.op]]

\* iter.next()
IterNext ==
    /\ sstIter # NoIter
    /\ sstOut.nones < MaxNones
    /\ LET r == try_next(sstIter, sstTable, sstFile)
       IN  /\ sstIter' = r.iter
           /\ sstOut' = [sstOut EXCEPT
                            !.emitted = IF r.entry.some THEN Append(@, r.entry.value) ELSE @,
                            !.nones = IF r.entry.some THEN @ ELSE @ + 1,
                            !.ops = @ \cup {"next"},
                            !.last = Called("next", r)]
    /\ UNCHANGED <<sstBuilder, sstAdded, sstFile, sstTable, sstOpened, txnVars, codecVars, metaVars>>

\* iter.next_back()
IterNextBack ==
    /\ sstIter # NoIter
    /\ sstOut.nones < MaxNones
    /\ LET r == try_next_back(sstIter, sstTable, sstFile)
       IN  /\ sstIter' = r.iter
           /\ sstOut' = [sstOut EXCEPT
                            !.back = IF r.entry.some THEN Append(@, r.entry.value) ELSE @,
                            !.nones = IF r.entry.some THEN @ ELSE @ + 1,
                            !.ops = @ \cup {"next_back"},
                            !.last = Called("next_back", r)]
    /\ UNCHANGED <<sstBuilder, sstAdded, sstFile, sstTable, sstOpened, txnVars, codecVars, metaVars>>

IterStep ==
    \/ \E k \in SstKeys, full \in BOOLEAN : IterAdd(k, full)
    \/ SstBuild
    \/ IterNew
    \/ \E start_bound \in Bounds, end_bound \in Bounds : IterCreate(start_bound, end_bound)
    \/ \E key \in SstKeys, included \in BOOLEAN : IterFrontSeek(key, included)
    \/ \E key \in SstKeys, included \in BOOLEAN : IterBackSeek(key, included)
    \/ IterNext
    \/ IterNextBack

IterSpec == IterInit /\ [][IterStep]_vars

\* ------------------------------------------ the codec of the block metas

\* the number of metas in a list
MaxMetas == 2

\* the offsets of the metas: 0, and offsets with more than one byte set
MetaOffsets == {0, 258, 16777217}

\* the longest key whose length first_key_len can tell
MaxKey == Run(127, MaxU16)

\* a key of 2^16 + 6 bytes whose bytes after the sixth read as one meta
\* entry: offset 0, first_key_len 2^16 - 6, and as many bytes
SplitKey == <<1, 1, 1, 1, 1, 1, 0, 0, 0, 0, 255, 250>> \o Run(127, MaxU16 - 5)

\* the first keys of the metas
MetaKeys == SstKeys \cup {MaxKey, LongKey, SplitKey}

\* the lists of metas given to encode_block_meta
MetaLists ==
    UNION {[1..n -> {BlockMeta(offset, first_key) :
                         offset \in MetaOffsets, first_key \in MetaKeys}] :
           n \in 0..MaxMetas}

\* what the buffer holds before encode_block_meta: nothing, or block data
MetaBuffers == {<<>>, <<9, 9>>}

\* a list of metas is at hand
MetaInit ==
    /\ store = EmptyStore
    /\ durable = EmptyStore
    /\ thread = [t \in Threads |-> Idle]
    /\ txns = {}
    /\ resumed = {}
    /\ nCalls = 0
    /\ returned = <<>>
    /\ committed = {}
    /\ failed = FALSE
    /\ ret = NoRet
    /\ took = 0
    /\ CodecIdle
    /\ SstIdle
    /\ metaIn \in MetaLists
    /\ metaBuf = NoBuf
    /\ metaOut = NoDecoded

\* BlockMeta::encode_block_meta(&metaIn, &mut buffer), as build calls it
MetaEncode(buffer) ==
    /\ metaBuf = NoBuf
    /\ metaBuf' = [state |-> "buffer", original_len |-> ByteLen(buffer),
                   bytes |-> encode_block_meta(metaIn, buffer)]
    /\ UNCHANGED <<metaIn, metaOut, txnVars, codecVars, sstVars>>

\* BlockMeta::decode_block_meta of the bytes that encode_block_meta wrote
MetaDecode ==
    /\ metaBuf # NoBuf
    /\ metaOut = NoDecoded
    /\ LET r == decode_block_meta(Drop(metaBuf.bytes, metaBuf.original_len))
       IN  metaOut' = [state |-> "decoded", panic |-> r.panic, block_meta |-> r.block_meta]
    /\ UNCHANGED <<metaIn, metaBuf, txnVars, codecVars, sstVars>>

MetaStep ==
    \/ \E buffer \in MetaBuffers : MetaEncode(buffer)
    \/ MetaDecode

MetaSpec == MetaInit /\ [][MetaStep]_vars

\* ------------------------------------------------------------------ properties
\* the elements of a sequence
Range(seq) == {seq[i] : i \in 1..Len(seq)}

\* the active set: the ids whose TxnActive marker is in the store
ActiveIds(s) == {id \in 0..(MaxCalls + 1) : encode(TxnActive(id)) \in DOMAIN s}

\* the set stored under TxnSnapshot(version)
StoredSnapshot(s, version) == deserialize(s[encode(TxnSnapshot(version))])

\* C1: with calls that do not overlap and no failed begin, the snapshot of a
\* transaction begun in ReadWrite or ReadOnly mode has invisible equal to the
\* set of lower ids that begin returned and that were not committed when it ran
C1_ActiveSetSequential ==
    (ret.op = "begin" /\ ret.ok /\ ~failed /\ ret.txn.mode.mode # "Snapshot")
    => /\ ret.txn.snapshot.version = ret.txn.id
       /\ ret.txn.snapshot.invisible =
              {a \in Range(returned) : a < ret.txn.id /\ a \notin committed}

\* begin returns id 3 with invisible = {2} after id 1 was committed
C1_Witness ==
    /\ ret.op = "begin" /\ ret.ok /\ ~failed
    /\ ret.txn.id = 3
    /\ ret.txn.mode = ReadWrite
    /\ ret.txn.snapshot.invisible = {2}
    /\ committed = {1}

\* C2: with calls that do not overlap, the first begin on a fresh store
\* allocates id 1, the ids begin returns are strictly increasing, the next id
\* is above every id returned, and no commit or resume changes the next id
C2_IdsIncreasing ==
    /\ \A i, j \in 1..Len(returned) : i < j => returned[i] < returned[j]
    /\ \A i \in 1..Len(returned) : returned[i] < next_id(store)
    /\ (ret.op = "begin" /\ ret.pre = EmptyStore) => ret.id = 1
    /\ ret.op \in {"commit", "resume"} => next_id(store) = next_id(ret.pre)

\* three begins returned 1, 2, 3 with a commit among them
C2_Witness ==
    /\ returned = <<1, 2, 3>>
    /\ committed # {}

\* C3: no two begin calls return the same id, also when their store calls
\* interleave
C3_IdsUnique ==
    \A i, j \in 1..Len(returned) : i # j => returned[i] # returned[j]

\* C4: a transaction B begun in ReadWrite or ReadOnly mode has in its
\* invisible set every lower id A that begin returned and that is not
\* committed, whatever the interleaving of the two begins
C4_NoMissedActive ==
    \A A \in txns, B \in txns :
        (A.id < B.id /\ A.id \notin committed /\ B.mode.mode # "Snapshot")
        => A.id \in B.snapshot.invisible

\* C5: the set Snapshot::take persists under TxnSnapshot(version) is the set of
\* the TxnActive ids below version that are in the store when it is written
C5_TakeAtomic ==
    took # 0 => StoredSnapshot(store, took) = {a \in ActiveIds(store) : a < took}

\* C6: a persisted TxnSnapshot(v) is never overwritten or deleted: every step
\* of a begin, resume or commit leaves the key in the store with its value
C6_SnapshotImmutable ==
    [][\A v \in 0..(MaxCalls + 1) :
          encode(TxnSnapshot(v)) \in DOMAIN store
          => /\ encode(TxnSnapshot(v)) \in DOMAIN store'
             /\ StoredSnapshot(store', v) = StoredSnapshot(store, v)]_vars

\* a snapshot that lists a transaction which has since committed, and whose
\* own transaction has committed too, is still in the store
C6_Witness ==
    \E v \in 1..MaxCalls :
        /\ encode(TxnSnapshot(v)) \in DOMAIN store
        /\ v \in committed
        /\ StoredSnapshot(store, v) \cap committed # {}
        /\ ret.op = "commit"

\* C7: with calls that do not overlap, resume(T.id) of a transaction T that
\* begin returned and that is not committed succeeds and returns T's id, mode
\* and snapshot
C7_ResumeFidelity ==
    \A T \in txns :
        (ret.op = "resume" /\ ret.id = T.id /\ T.id \notin committed)
        => ret.ok /\ ret.txn = T

\* resume of a Snapshot-mode transaction, whose snapshot is the restored one
\* of another version and not empty
C7_Witness ==
    /\ ret.op = "resume" /\ ret.ok
    /\ ret.txn \in txns
    /\ ret.txn.mode.mode = "Snapshot"
    /\ ret.txn.snapshot.version # ret.txn.id
    /\ ret.txn.snapshot.invisible # {}

\* C8: resume(id) fails with Value("No active transaction id") exactly when
\* TxnActive(id) is absent from the store, which is the case for an id never
\* allocated and for a committed one, and the failed resume leaves the store
\* as it was
C8_ResumeNoActive ==
    ret.op = "resume"
    => /\ (ret.err = ErrValue("No active transaction", ret.id))
          <=> (encode(TxnActive(ret.id)) \notin DOMAIN ret.pre)
       /\ (ret.id \in committed \/ ret.id >= next_id(ret.pre))
          => ret.err = ErrValue("No active transaction", ret.id)
       /\ ~ret.ok => store = ret.pre

\* resume of a committed id failed, in a store that holds other keys
C8_Witness ==
    /\ ret.op = "resume" /\ ~ret.ok
    /\ ret.id \in committed
    /\ ret.err = ErrValue("No active transaction", ret.id)
    /\ encode(TxnSnapshot(ret.id)) \in DOMAIN store

\* C9 as stated: TxnActive(T.id) is in the store for every transaction T that
\* begin returned and that has not itself been committed, whatever is done
\* through other handles
C9_ActiveWhileLive ==
    \A T \in txns : encode(TxnActive(T.id)) \in DOMAIN store

\* C9: TxnActive(T.id) is in the store for every transaction object T, from
\* begin or from resume, until commit is called on an object with T's id
C9_ActiveUntilCommitted ==
    \A T \in txns \cup resumed :
        T.id \notin committed => encode(TxnActive(T.id)) \in DOMAIN store

\* a transaction from begin and one from resume with the same id are both
\* live while another transaction has committed
C9_Witness ==
    \E T \in txns, R \in resumed :
        /\ R.id = T.id
        /\ T.id \notin committed
        /\ committed # {}
        /\ encode(TxnActive(T.id)) \in DOMAIN store

\* the state of the store as commit of id leaves it, given the store before
CommitPost(id, pre) ==
    /\ encode(TxnActive(id)) \notin DOMAIN store
    /\ store = [k \in DOMAIN pre \ {encode(TxnActive(id))} |-> pre[k]]
    /\ durable = store

\* C10 as stated: commit deletes TxnActive(id) and nothing else, then flushes,
\* and a committed id is in the invisible set of no transaction begun later,
\* in any mode
C10_CommitAnyMode ==
    /\ ret.op = "commit" => CommitPost(ret.id, ret.pre)
    /\ (ret.op = "begin" /\ ret.ok) => ret.txn.snapshot.invisible \cap committed = {}

\* C10: commit deletes TxnActive(id) and nothing else, then flushes, and a
\* committed id is in the invisible set of no transaction begun later in
\* ReadWrite or ReadOnly mode
C10_CommitThenBegin ==
    /\ ret.op = "commit" => CommitPost(ret.id, ret.pre)
    /\ (ret.op = "begin" /\ ret.ok /\ ret.txn.mode.mode # "Snapshot")
       => ret.txn.snapshot.invisible \cap committed = {}

\* commit returned while a Snapshot-mode transaction is live, with the marker
\* of that transaction and the snapshot of the committed one left in the store
C10_Witness ==
    /\ ret.op = "commit"
    /\ \E T \in txns : T.mode.mode = "Snapshot" /\ T.id \in ActiveIds(store)
    /\ encode(TxnSnapshot(ret.id)) \in DOMAIN store
    /\ StoredSnapshot(store, ret.id) # {}

\* C11: with calls that do not overlap, begin(Snapshot{version}) called while
\* TxnSnapshot(version) is in the store allocates the next id as every begin
\* does, writes its TxnActive marker, persists under TxnSnapshot(id) the ids
\* active below id, and returns the restored snapshot: its version is version
\* and its invisible set is the one stored under TxnSnapshot(version)
C11_SnapshotModeBegin ==
    (/\ ret.op = "begin"
     /\ ret.ok
     /\ ret.txn.mode.mode = "Snapshot"
     /\ encode(TxnSnapshot(ret.txn.mode.version)) \in DOMAIN ret.pre)
    => /\ ret.txn.id = next_id(ret.pre)
       /\ next_id(store) = ret.txn.id + 1
       /\ get(store, encode(TxnActive(ret.txn.id))) = Some(serialize(ret.txn.mode))
       /\ StoredSnapshot(store, ret.txn.id)
              = {a \in ActiveIds(ret.pre) : a < ret.txn.id}
       /\ ret.txn.snapshot.version = ret.txn.mode.version
       /\ ret.txn.snapshot.invisible = StoredSnapshot(ret.pre, ret.txn.mode.version)
       /\ StoredSnapshot(store, ret.txn.mode.version)
              = StoredSnapshot(ret.pre, ret.txn.mode.version)

\* begin(Snapshot{version}) returned a snapshot that differs from the set it
\* has just persisted under its own id, neither of them empty
C11_Witness ==
    /\ ret.op = "begin" /\ ret.ok
    /\ ret.txn.mode.mode = "Snapshot"
    /\ encode(TxnSnapshot(ret.txn.mode.version)) \in DOMAIN ret.pre
    /\ ret.txn.snapshot.invisible # {}
    /\ StoredSnapshot(store, ret.txn.id) # {}
    /\ ret.txn.snapshot.invisible # StoredSnapshot(store, ret.txn.id)

\* the mode a begin call was given, read back from the marker it wrote
ModeOfBegin(s, id) == deserialize(s[encode(TxnActive(id))])

\* C12: Snapshot::restore(version) is the Value error "Snapshot not found for
\* version {version}" whenever TxnSnapshot(version) is not in the store, and
\* with calls that do not overlap begin(Snapshot{version}) and resume of a
\* Snapshot-mode transaction return that error to their caller
C12_SnapshotNotFound ==
    /\ \A v \in 0..(MaxCalls + 1) :
           encode(TxnSnapshot(v)) \notin DOMAIN store
           => /\ ~restore(store, v).ok
              /\ restore(store, v).err = ErrValue("Snapshot not found for version", v)
    /\ ret.op = "begin"
       => LET mode == ModeOfBegin(store, ret.id)
          IN  (/\ mode.mode = "Snapshot"
               /\ encode(TxnSnapshot(mode.version)) \notin DOMAIN store)
              <=> (/\ ~ret.ok
                   /\ ret.err = ErrValue("Snapshot not found for version", mode.version))
    /\ (ret.op = "resume" /\ encode(TxnActive(ret.id)) \in DOMAIN ret.pre)
       => LET mode == ModeOfBegin(ret.pre, ret.id)
          IN  (/\ mode.mode = "Snapshot"
               /\ encode(TxnSnapshot(mode.version)) \notin DOMAIN store)
              => (/\ ~ret.ok
                  /\ ret.err = ErrValue("Snapshot not found for version", mode.version))

\* resume of the Snapshot-mode transaction that a failed begin left active
\* returned the error of restore
C12_Witness ==
    /\ failed
    /\ ret.op = "resume" /\ ~ret.ok
    /\ encode(TxnActive(ret.id)) \in DOMAIN ret.pre
    /\ ModeOfBegin(ret.pre, ret.id).mode = "Snapshot"
    /\ ret.err = ErrValue("Snapshot not found for version",
                          ModeOfBegin(ret.pre, ret.id).version)

\* C13: begin(Snapshot{version}) returns a transaction only when version is
\* the id of a committed transaction, whose TxnActive marker is gone
C13_SnapshotOfCommitted ==
    (ret.op = "begin" /\ ret.ok /\ ret.txn.mode.mode = "Snapshot")
    => /\ ret.txn.mode.version \in committed
       /\ encode(TxnActive(ret.txn.mode.version)) \notin DOMAIN store

\* the order of the keys of one variant: by their fields in the order they are
\* encoded in, integers by value and byte strings lexicographically
KeyLess(a, b) ==
    /\ a.variant = b.variant
    /\ CASE a.variant = "TxnNext" -> FALSE
         [] a.variant = "TxnActive" -> a.id < b.id
         [] a.variant = "TxnSnapshot" -> a.version < b.version
         [] a.variant = "TxnUpdate" ->
                a.id < b.id \/ (a.id = b.id /\ BytesLess(a.key, b.key))
         [] a.variant = "Metadata" -> BytesLess(a.key, b.key)
         [] a.variant = "Record" ->
                BytesLess(a.key, b.key) \/ (a.key = b.key /\ a.version < b.version)

\* C14: decode of the encoding of a key, of any variant and with any field
\* values, zero bytes and the empty byte string included, is that key
C14_RoundTrip ==
    (result.op = "decode" /\ edits = 0)
    => /\ wire = encode(inKey)
       /\ result.err = NoErr
       /\ result.key = inKey

\* a Record key whose byte string holds 0x00 and 0xff and whose version needs
\* two bytes was encoded and decoded
C14_Witness ==
    /\ result.op = "decode" /\ edits = 0
    /\ inKey.variant = "Record"
    /\ inKey.key = <<0, 255>>
    /\ inKey.version = 256
    /\ result.key = inKey

\* b is the encoding of a key of Keys followed by at least one byte
HasBytesLeftOver(b) ==
    \E k \in Keys :
        /\ Len(b) > Len(encode(k))
        /\ SubSeq(b, 1, Len(encode(k))) = encode(k)

\* C15: decode is an Internal error for a byte string whose first byte is
\* none of the six tags and for one with bytes left after the fields of its
\* variant, and it returns a key only for the byte string that is exactly
\* the encoding of that key
C15_DecodeStrict ==
    result.op = "decode"
    => /\ (wire # <<>> /\ Head(wire) \notin {1, 2, 3, 4, 5, 255})
          => /\ result.key = DecodeErr
             /\ result.err = ErrInternal("Unknown MVCC key prefix")
       /\ (wire # <<>> /\ Head(wire) \in {1, 2, 3, 4, 5, 255} /\ HasBytesLeftOver(wire))
          => /\ result.key = DecodeErr
             /\ result.err = ErrInternal("Unexpected data remaining at end of key")
       /\ result.key # DecodeErr => encode(result.key) = wire
       /\ (result.key = DecodeErr) <=> (result.err.kind = "Internal")

\* the encoding of a TxnUpdate key with one more byte was refused for the
\* byte left over
C15_Witness ==
    /\ result.op = "decode"
    /\ edits = 1
    /\ inKey.variant = "TxnUpdate"
    /\ inKey.key # <<>>
    /\ Len(wire) = Len(encode(inKey)) + 1
    /\ SubSeq(wire, 1, Len(wire) - 1) = encode(inKey)
    /\ result.key = DecodeErr
    /\ result.err = ErrInternal("Unexpected data remaining at end of key")

\* C16: for two keys of one variant, a is below b by their fields exactly
\* when encode(a) is below encode(b) as byte strings; and the range
\* TxnActive(0)..TxnActive(version) that Snapshot::take scans holds exactly
\* the TxnActive keys with an id below version, and no key of another variant
C16_OrderPreserved ==
    /\ (result.op = "compare" /\ result.other.variant = inKey.variant)
       => (KeyLess(inKey, result.other) <=> result.less)
    /\ result.op # "scan failed"
    /\ result.op = "scan"
       => /\ result.found = {encode(TxnActive(id)) : id \in {u \in U64Values : u < inKey.id}}
          /\ result.invisible = {u \in U64Values : u < inKey.id}

\* take scanned below TxnActive(256) a store with keys of every variant and
\* found the ids on both sides of a byte boundary
C16_Witness ==
    /\ result.op = "scan"
    /\ inKey = TxnActive(256)
    /\ encode(TxnActive(255)) \in result.found
    /\ encode(TxnActive(0)) \in result.found
    /\ \E k \in DOMAIN KeyStore : decode(k).variant # "TxnActive"

\* the block metas as they are now: of the builder while it adds, of the
\* table once it is built
MetasNow ==
    IF sstBuilder # NoBuilder THEN sstBuilder.meta
    ELSE IF sstTable # NoTable THEN sstTable.block_metas
    ELSE <<>>

\* the file offset at which the meta block starts: what is left of the file
\* without the trailer and the encoded metas, the total length of the blocks
MetaBlockStart ==
    ByteLen(sstFile.bytes) - 4 - ByteLen(encode_block_meta(sstTable.block_metas, <<>>))

\* the four bytes of the trailer, as a number
Trailer == FromBigEndian(Plain(Drop(sstFile.bytes, ByteLen(sstFile.bytes) - 4)))

\* open gave the metas of the builder and the offset at which the meta block
\* starts, which is the value of the trailer
OpenedAsBuilt ==
    /\ sstOpened.state = "table"
    /\ sstOpened.block_metas = sstTable.block_metas
    /\ sstOpened.block_meta_offset = MetaBlockStart
    /\ sstOpened.block_meta_offset = sstTable.block_meta_offset
    /\ Trailer = MetaBlockStart

\* C17 as stated: after any calls of add and build, open of the file gives
\* the block metas of the builder and the offset of the meta block, which is
\* the value of the trailer
C17_OpenAnyTable ==
    sstOpened # NoTable => OpenedAsBuilt

\* C17: after calls of add in which the first key of every block is shorter
\* than 2^16 bytes (the data being shorter than 2^32 bytes, as all data here
\* is), and build, open of the file gives the block metas of the builder and
\* the offset of the meta block, which is the value of the trailer
C17_OpenRoundTrip ==
    (/\ sstOpened # NoTable
     /\ \A i \in 1..Len(sstTable.block_metas) :
            ByteLen(sstTable.block_metas[i].first_key) <= MaxU16)
    => OpenedAsBuilt

\* a file of three blocks, the first with the empty key as its first key,
\* was opened
C17_Witness ==
    /\ sstOpened # NoTable
    /\ sstOpened.state = "table"
    /\ Len(sstOpened.block_metas) = 3
    /\ sstOpened.block_metas[1].first_key = <<>>
    /\ sstOpened.block_metas[3].first_key # <<>>
    /\ sstOpened.block_metas[2].offset > 0
    /\ sstOpened.block_meta_offset > sstOpened.block_metas[3].offset

\* the keys stored in block block_idx of the built table
KeysOfBlock(block_idx) ==
    LET block == read_block(sstTable, sstFile, block_idx)
    IN  {block[j][1] : j \in 1..Len(block)}

\* C18: in a table built from keys added in non-decreasing order, the empty
\* key included, every key stored in block i is at or above the first_key of
\* block i and below the first_key of block i + 1, and the first_key of a
\* block is the first key stored in it
C18_FirstKeyBounds ==
    (sstTable # NoTable /\ ShortKeys)
    => \A i \in 0..(num_of_blocks(sstTable) - 1) :
           LET block == read_block(sstTable, sstFile, i)
           IN  /\ \A k \in KeysOfBlock(i) :
                      /\ BytesLeq(sstTable.block_metas[i + 1].first_key, k)
                      /\ i + 1 < num_of_blocks(sstTable)
                         => BytesLess(k, sstTable.block_metas[i + 2].first_key)
               /\ block # <<>> => sstTable.block_metas[i + 1].first_key = block[1][1]

\* C19: while pairs are added with keys in non-decreasing order, and after
\* build, the offsets and the first keys of the block metas are strictly
\* increasing
C19_MetasIncreasing ==
    ShortKeys
    => \A i \in 1..(Len(MetasNow) - 1) :
           /\ MetasNow[i].offset < MetasNow[i + 1].offset
           /\ BytesLess(MetasNow[i].first_key, MetasNow[i + 1].first_key)

\* the keys given to add are strictly increasing
KeysIncreasing ==
    \A i \in 1..(Len(sstAdded) - 1) : BytesLess(sstAdded[i][1], sstAdded[i + 1][1])

\* C20: for a table built from pairs added in increasing key order, however
\* they were split into blocks, the calls of next on a new iterator return
\* the pairs in the order they were added, each once, and none only after
\* the last of them
C20_ForwardIteration ==
    (sstIter # NoIter /\ KeysIncreasing)
    => /\ Len(sstOut.emitted) <= Len(sstAdded)
       /\ sstOut.emitted = SubSeq(sstAdded, 1, Len(sstOut.emitted))
       /\ sstOut.nones > 0 => sstOut.emitted = sstAdded

\* three pairs in two blocks were returned in order, and next returned none
\* twice after them
C20_Witness ==
    /\ sstIter # NoIter
    /\ KeysIncreasing
    /\ Len(sstAdded) = 3
    /\ num_of_blocks(sstTable) = 2
    /\ sstOut.emitted = sstAdded
    /\ sstOut.nones = 2

\* the pairs of the table from last to first
RECURSIVE Reverse(_)
Reverse(seq) == IF seq = <<>> THEN <<>> ELSE Reverse(Tail(seq)) \o <<Head(seq)>>

\* seq begins with pre
IsPrefix(pre, seq) == Len(pre) <= Len(seq) /\ pre = SubSeq(seq, 1, Len(pre))

\* the iterator in use was made by new and was not seeked since
FromNew == sstIter # NoIter /\ sstOut.made = "new" /\ sstOut.seeks = 0

\* C21: for a table built from pairs added in increasing key order, however
\* they were split into blocks, the calls of next_back on a new iterator, no
\* call of next among them, return the pairs in the reverse of the order they
\* were added, each once, and none only after the first of them
C21_BackwardIteration ==
    (FromNew /\ KeysIncreasing /\ sstOut.ops \subseteq {"next_back"})
    => /\ IsPrefix(sstOut.back, Reverse(sstAdded))
       /\ sstOut.nones > 0 => sstOut.back = Reverse(sstAdded)

\* three pairs in two blocks were returned from the back in reverse order,
\* and next_back returned none twice after them
C21_Witness ==
    /\ FromNew
    /\ KeysIncreasing
    /\ sstOut.ops = {"next_back"}
    /\ Len(sstAdded) = 3
    /\ num_of_blocks(sstTable) = 2
    /\ sstOut.back = Reverse(sstAdded)
    /\ sstOut.nones = 2

\* the number of pairs the iterator returned
Returned == Len(sstOut.emitted) + Len(sstOut.back)

\* the calls of next returned the first pairs in order, the calls of
\* next_back the last pairs in reverse order, no pair came twice, no call
\* returned none before all pairs were returned, and is_valid is false
\* exactly when all pairs were returned
BothEndsMeet ==
    /\ IsPrefix(sstOut.emitted, sstAdded)
    /\ IsPrefix(sstOut.back, Reverse(sstAdded))
    /\ Returned <= Len(sstAdded)
    /\ sstOut.nones > 0 => Returned = Len(sstAdded)
    /\ is_valid(sstIter, sstTable) <=> Returned < Len(sstAdded)

\* C22 as stated: for a table of any number of pairs and every sequence of
\* next and next_back on a new iterator, the ends return the pairs in order
\* from either side, none twice, and is_valid is false exactly when all were
\* returned
C22_AnyTable ==
    FromNew => BothEndsMeet

\* C22: for a table of at least one pair and every sequence of next and
\* next_back on a new iterator, the k-th next returns the k-th pair, the k-th
\* next_back the k-th pair from the end, no pair is returned twice or by both
\* ends, no call returns none before all pairs were returned, and is_valid is
\* false exactly when all pairs were returned
C22_BothEnds ==
    (FromNew /\ sstAdded # <<>>) => BothEndsMeet

\* three pairs in two blocks: next, next_back and next returned them all, the
\* iterator is not valid and a further call returned none
C22_Witness ==
    /\ FromNew
    /\ Len(sstAdded) = 3
    /\ num_of_blocks(sstTable) = 2
    /\ Len(sstOut.emitted) = 2
    /\ Len(sstOut.back) = 1
    /\ sstOut.nones = 1
    /\ ~is_valid(sstIter, sstTable)


\* the last call was the first next after a front seek to the key, the back
\* cursor unset: after create_and_seek_to_key, which is create with no end
\* bound, or after front_seek_to_key on an iterator of new in use
NextAfterFrontSeek(key, included) ==
    /\ sstIter # NoIter
    /\ sstOut.last.op = "next"
    /\ ~sstOut.last.before.back_block_iter.some
    /\ \/ /\ sstOut.last.after.op = "front_seek_to_key"
          /\ sstOut.last.after.key = key
          /\ sstOut.last.after.included = included
       \/ /\ sstOut.last.after.op = "create"
          /\ sstOut.range.end_bound = Unbounded
          /\ sstOut.range.start_bound = (IF included THEN Included(key) ELSE Excluded(key))

\* the places of the table whose keys are at or after the key
PlacesFrom(key, included) ==
    {i \in 1..Len(sstAdded) : AtOrAfter(sstAdded[i][1], key, included)}

\* the least of a set of numbers that is not empty
Least(nums) == CHOOSE i \in nums : \A j \in nums : i <= j

\* C23: the first call of next after a front seek to a key, by
\* create_and_seek_to_key or by front_seek_to_key on an iterator whose front
\* cursor was anywhere, returns a pair of the smallest key of the table at or
\* after the key (after it, when the key is excluded); when the table has
\* no such key the iterator is not valid and the call returns none
C23_FrontSeek ==
    \A key \in SstKeys, included \in BOOLEAN :
        NextAfterFrontSeek(key, included)
        => IF PlacesFrom(key, included) = {}
           THEN ~sstOut.last.valid /\ ~sstOut.last.entry.some
           ELSE /\ sstOut.last.entry.some
                /\ sstOut.last.entry.value[1] = sstAdded[Least(PlacesFrom(key, included))][1]

\* in a table of the keys 1 and 2 in two blocks, after two calls of next the
\* iterator was seeked to the empty key, which is below the first key, and
\* next returned the first pair
C23_Witness ==
    /\ NextAfterFrontSeek(<<>>, TRUE)
    /\ sstOut.last.after.op = "front_seek_to_key"
    /\ num_of_blocks(sstTable) = 2
    /\ Len(sstAdded) = 2
    /\ sstAdded[1][1] = <<1>>
    /\ sstOut.last.before.front_block_iter.value.idx = 0
    /\ sstOut.last.entry = Some(sstAdded[1])


\* the number of entries of block block_idx of the built table
BlockLen(block_idx) == Len(read_block(sstTable, sstFile, block_idx))

\* the number of entries in the blocks before block block_idx
RECURSIVE BlockStart(_)
BlockStart(block_idx) ==
    IF block_idx <= 0 THEN 0 ELSE BlockStart(block_idx - 1) + BlockLen(block_idx - 1)

\* the place in the table, from 0, of the last entry the front returned or
\* was seeked past: -1 with the front cursor unset, the last place when the
\* cursor has left the last block
FrontPlace ==
    LET front == sstIter.front_block_iter
    IN  IF ~front.some THEN -1
        ELSE IF front.value.idx >= num_of_blocks(sstTable) THEN Len(sstAdded) - 1
        ELSE BlockStart(front.value.idx) + front.value.iter.front_index

\* the place in the table of the last entry the back returned or was seeked
\* past: the number of entries with the back cursor unset, 0 when the cursor
\* has left the first block
BackPlace ==
    LET back == sstIter.back_block_iter
    IN  IF ~back.some THEN Len(sstAdded)
        ELSE IF back.value.idx < 0 THEN 0
        ELSE BlockStart(back.value.idx) + back.value.iter.back_index

\* is_valid as the spec words it for two cursors that are set
ValidAsWorded ==
    LET front == sstIter.front_block_iter.value
        back == sstIter.back_block_iter.value
    IN  IF front.idx > back.idx THEN FALSE
        ELSE IF front.idx = back.idx
        THEN front.iter.front_index + 1 < back.iter.back_index
        ELSE \/ front.idx + 1 < back.idx
             \/ front.iter.front_index # Len(front.iter.block) - 1
             \/ back.iter.back_index # 0

\* C25: in every state of an iterator made by new, create or a seek and
\* driven by next and next_back, on a table whose blocks all hold an entry,
\* is_valid is true exactly when an entry lies between the last one the front
\* returned and the last one the back returned; with both cursors set it is
\* false when the front block is after the back block, front cursor + 1 <
\* back cursor in one block, and with the front block before the back block
\* true exactly when the blocks are not adjacent, or the front has not
\* returned the last entry of its block, or the back has not returned the
\* first entry of its block
C25_ValidIffEntryLeft ==
    (sstIter # NoIter /\ sstAdded # <<>>)
    => /\ is_valid(sstIter, sstTable) <=> FrontPlace + 1 < BackPlace
       /\ (sstIter.front_block_iter.some /\ sstIter.back_block_iter.some)
          => (is_valid(sstIter, sstTable) <=> ValidAsWorded)

\* both cursors are in adjacent blocks of a table of three pairs, the front
\* has returned the last entry of its block, the back has not returned the
\* first of its block, and the iterator is valid
C25_Witness ==
    /\ sstIter # NoIter
    /\ Len(sstAdded) = 3
    /\ sstIter.front_block_iter.some
    /\ sstIter.back_block_iter.some
    /\ sstIter.front_block_iter.value.idx + 1 = sstIter.back_block_iter.value.idx
    /\ sstIter.front_block_iter.value.iter.front_index
           = Len(sstIter.front_block_iter.value.iter.block) - 1
    /\ sstIter.back_block_iter.value.iter.back_index = 1
    /\ is_valid(sstIter, sstTable)


\* the key lies within the range the iterator was made with
InBounds(k) ==
    /\ sstOut.range.start_bound.kind # "Unbounded"
       => AtOrAfter(k, sstOut.range.start_bound.v, sstOut.range.start_bound.kind = "Included")
    /\ sstOut.range.end_bound.kind # "Unbounded"
       => AtOrBefore(k, sstOut.range.end_bound.v, sstOut.range.end_bound.kind = "Included")

\* the pairs of the table whose keys lie within the range, in order
InRange ==
    LET within(pair) == InBounds(pair[1])
    IN  SelectSeq(sstAdded, within)

\* C24: on a table of at least one pair with strictly increasing keys, an
\* iterator made by create(table, range) returns, over any mix of next and
\* next_back, the pairs of the table whose keys lie in the range, from the
\* front in order and from the back in reverse order, none twice and none
\* before all of them were returned; so the first next_back after a back seek
\* returns the largest key at or before the bound; and with no key in the
\* range the iterator is not valid from the start
C24_RangeIteration ==
    (/\ sstIter # NoIter
     /\ sstOut.made = "create"
     /\ sstAdded # <<>>
     /\ KeysIncreasing)
    => /\ IsPrefix(sstOut.emitted, InRange)
       /\ IsPrefix(sstOut.back, Reverse(InRange))
       /\ Returned <= Len(InRange)
       /\ sstOut.nones > 0 => Returned = Len(InRange)
       /\ InRange = <<>> => ~is_valid(sstIter, sstTable)


\* C26: a call of next or next_back on an iterator that is not valid returns
\* none, reads no block and leaves both cursors as they were, so that the
\* iterator is still not valid after it; a call on a valid iterator over a
\* table whose blocks all hold an entry returns an entry
C26_InvalidAbsorbs ==
    (sstIter # NoIter /\ sstOut.last.op \in {"next", "next_back"})
    => /\ ~sstOut.last.valid
          => /\ ~sstOut.last.entry.some
             /\ sstOut.last.reads = 0
             /\ sstIter = sstOut.last.before
             /\ ~is_valid(sstIter, sstTable)
       /\ (sstOut.last.valid /\ sstAdded # <<>>) => sstOut.last.entry.some

\* after three pairs were returned from both ends of a table of two blocks,
\* a second call in a row found the iterator not valid and returned none
C26_Witness ==
    /\ FromNew
    /\ Len(sstAdded) = 3
    /\ num_of_blocks(sstTable) = 2
    /\ sstOut.emitted # <<>>
    /\ sstOut.back # <<>>
    /\ sstOut.nones = 2
    /\ sstOut.last.op = "next"
    /\ ~sstOut.last.valid
    /\ ~sstOut.last.entry.some

\* the ids below id that no begin returned: with calls that do not overlap,
\* the ids that a failed begin allocated
FailedBefore(id) == {f \in 1..(id - 1) : f \notin Range(returned)}

\* begin returned the error of restore, and what it wrote is in the store
NotRolledBack ==
    (/\ ret.op = "begin" /\ ~ret.ok
     /\ \E v \in Versions : ret.err = ErrValue("Snapshot not found for version", v))
    => /\ encode(TxnActive(ret.id)) \notin DOMAIN ret.pre
       /\ encode(TxnSnapshot(ret.id)) \notin DOMAIN ret.pre
       /\ next_id(ret.pre) = ret.id
       /\ next_id(store) = ret.id + 1
       /\ encode(TxnActive(ret.id)) \in DOMAIN store
       /\ ModeOfBegin(store, ret.id).mode = "Snapshot"
       /\ ret.err = ErrValue("Snapshot not found for version",
                             ModeOfBegin(store, ret.id).version)
       /\ encode(TxnSnapshot(ret.id)) \in DOMAIN store
       /\ \A x \in txns \cup resumed : x.id # ret.id

\* C27 as stated: a begin that fails with "Snapshot not found" is not rolled
\* back (TxnNext = id + 1, TxnActive(id) and TxnSnapshot(id) stay in the store
\* and no transaction object has the id), and the id is in the invisible set
\* of every transaction begun afterwards
C27_EveryLaterBegin ==
    /\ NotRolledBack
    /\ (ret.op = "begin" /\ ret.ok)
       => \A f \in FailedBefore(ret.id) : f \in ret.txn.snapshot.invisible

\* C27: with calls that do not overlap, a begin that fails with "Snapshot not
\* found" is not rolled back, and as long as the id was not committed through
\* resume it is in the set that every later begin persists under TxnSnapshot,
\* which is the invisible set of every later ReadWrite or ReadOnly transaction
C27_FailedBeginNotRolledBack ==
    /\ NotRolledBack
    /\ (ret.op = "begin" /\ ret.ok)
       => \A f \in FailedBefore(ret.id) \ committed :
              /\ f \in StoredSnapshot(store, ret.id)
              /\ ret.txn.mode.mode # "Snapshot" => f \in ret.txn.snapshot.invisible

\* a ReadWrite begin returned after an earlier begin(Snapshot{version}) had
\* failed, with the id of the failed begin in its invisible set
C27_Witness ==
    /\ ret.op = "begin" /\ ret.ok
    /\ ret.txn.mode = ReadWrite
    /\ \E f \in FailedBefore(ret.id) :
           /\ f \in ret.txn.snapshot.invisible
           /\ encode(TxnActive(f)) \in DOMAIN store
           /\ ModeOfBegin(store, f).mode = "Snapshot"
           /\ \A x \in txns \cup resumed : x.id # f

\* the versions with a snapshot persisted in store s
StoredVersions(s) == {v \in 0..(MaxCalls + 1) : encode(TxnSnapshot(v)) \in DOMAIN s}

\* every persisted snapshot holds only ids below its version and below TxnNext
PersistedBelow ==
    \A v \in StoredVersions(store) : \A a \in StoredSnapshot(store, v) :
        a < v /\ a < next_id(store)

\* every snapshot a transaction works with holds only ids below its version
\* and below TxnNext
InMemoryBelow ==
    \A x \in txns \cup resumed : \A a \in x.snapshot.invisible :
        a < x.snapshot.version /\ a < next_id(store)

\* no transaction that begin returned has its own id in its invisible set
OwnIdVisibleBegun == \A x \in txns : x.id \notin x.snapshot.invisible

\* no transaction that resume returned has its own id in its invisible set
OwnIdVisibleResumed == \A x \in resumed : x.id \notin x.snapshot.invisible

\* C28: in every reachable state every persisted TxnSnapshot(v) and every
\* snapshot a transaction works with holds only ids below its version, every
\* id in a snapshot is below TxnNext, and no transaction has its own id in
\* the invisible set of the snapshot it works with
C28_SnapshotIdsBelow ==
    /\ PersistedBelow
    /\ InMemoryBelow
    /\ OwnIdVisibleBegun
    /\ OwnIdVisibleResumed

\* every first key of the list is shorter than 2^16 bytes (every offset of
\* a list is below 2^32)
MetasInRange(m) == \A i \in 1..Len(m) : ByteLen(m[i].first_key) <= MaxU16

\* the bytes of a list of metas as the claim words them: the offset in four
\* bytes, the length of the key mod 2^16 in two, and the key
RECURSIVE MetaWire(_)
MetaWire(m) ==
    IF m = <<>> THEN <<>>
    ELSE BigEndian(Head(m).offset, 4)
         \o BigEndian(ByteLen(Head(m).first_key) % (MaxU16 + 1), 2)
         \o Head(m).first_key
         \o MetaWire(Tail(m))

\* encode_block_meta kept what was in the buffer and appended the bytes of
\* the metas, whatever the length of the keys
EncodedAsWorded ==
    /\ Take(metaBuf.bytes, metaBuf.original_len) \in MetaBuffers
    /\ Drop(metaBuf.bytes, metaBuf.original_len) = MetaWire(metaIn)

\* C29 as stated: decode_block_meta(encode_block_meta(m)) is m when every
\* first_key of m is shorter than 2^16 bytes; for a longer key
\* encode_block_meta writes the length mod 2^16 without an error, and the
\* decoded list differs from m
C29_DecodedListDiffers ==
    metaOut # NoDecoded
    => /\ EncodedAsWorded
       /\ ~metaOut.panic
       /\ MetasInRange(metaIn) <=> metaOut.block_meta = metaIn

\* C29: decode_block_meta(encode_block_meta(m)) is m when every first_key
\* of m is shorter than 2^16 bytes; for a longer key encode_block_meta writes
\* the length mod 2^16 without an error, and decode_block_meta panics or
\* returns a list that differs from m
C29_MetaRoundTrip ==
    /\ metaBuf # NoBuf => EncodedAsWorded
    /\ metaOut # NoDecoded
       => IF MetasInRange(metaIn)
          THEN ~metaOut.panic /\ metaOut.block_meta = metaIn
          ELSE metaOut.panic \/ metaOut.block_meta # metaIn

\* a list of two metas, one with a key of 2^16 - 1 bytes and one with the
\* empty key, came back from the bytes appended to a buffer in use
C29_Witness ==
    /\ metaOut # NoDecoded
    /\ metaBuf.original_len > 0
    /\ Len(metaIn) = 2
    /\ metaIn[1].first_key = MaxKey
    /\ metaIn[1].offset = 16777217
    /\ metaIn[2].first_key = <<>>
    /\ ~metaOut.panic
    /\ metaOut.block_meta = metaIn

====
